---- MODULE Spec2Model ----
(***************************************************************************)
(* Presence-period reconstruction and aggregation of the greta cat         *)
(* presence reporter: the event store (storage.ts) and the report          *)
(* generator (report.ts, latest revision).                                 *)
(*                                                                         *)
(* Representation.                                                         *)
(*  - An ISO-8601 timestamp string "YYYY-MM-DDThh:mm:ss.mmmZ" is the tuple *)
(*    <<year, month, day, msOfDay>>; "YYYY-MM-DD" is <<year, month, day>>  *)
(*    and "YYYY-MM" is <<year, month>>.  Tuples of equal length compare    *)
(*    like the strings they stand for.                                     *)
(*  - A JavaScript Date is the pair <<d, ms>>: d days since 1970-01-01 and *)
(*    ms milliseconds into that UTC day, 0 <= ms < MsPerDay, so that an    *)
(*    instant keeps its full millisecond precision.                        *)
(*  - A number of hours is kept exactly, as the integer number of          *)
(*    milliseconds it stands for (hours = ms / MsPerHour).  24 is          *)
(*    24 * MsPerHour and the 0.01 of the gap threshold is MsPerHour / 100. *)
(*    Floating-point rounding of the sums is not modelled.                 *)
(*  - A JavaScript Map is a function on its key set; an array is a         *)
(*    sequence.                                                            *)
(***************************************************************************)
EXTENDS Integers, Sequences, FiniteSets, TLC

(***************************************************************************)
(* Bounds of the model.                                                    *)
(***************************************************************************)
\* largest number of events the store holds
MaxEvents == 3

(***************************************************************************)
(* Units and program constants.                                            *)
(***************************************************************************)
MsPerHour == 1000 * 60 * 60

MsPerDay == 24 * 60 * 60 * 1000

\* const TIMEZONE_OFFSET_MS = 1 * 60 * 60 * 1000
TIMEZONE_OFFSET_MS == 1 * 60 * 60 * 1000

\* 24 hours, in the unit of the hour fields
Hours24 == 24 * MsPerHour

\* the 0.01 hours of "missingHours > 0.01"
GapThreshold == MsPerHour \div 100

(***************************************************************************)
(* JavaScript Date: the proleptic Gregorian calendar in UTC.               *)
(***************************************************************************)
\* year of the 400-year era of day doe of that era
YearOfEra(doe) == (doe - doe \div 1460 + doe \div 36524 - doe \div 146096) \div 365

\* day of the (March-based) year of day doe of the era, in year yoe of the era
DayOfYear(doe, yoe) == doe - (365 * yoe + yoe \div 4 - yoe \div 100)

\* month 1..12 of the March-based month index mp
CivilMonth(mp) == IF mp < 10 THEN mp + 3 ELSE mp - 9

\* civil date of day doy, month index mp, of year yoe of era
CivilFromDoy(era, yoe, doy, mp) ==
  << yoe + era * 400 + (IF CivilMonth(mp) <= 2 THEN 1 ELSE 0),
     CivilMonth(mp),
     doy - (153 * mp + 2) \div 5 + 1 >>

\* civil date of day doe of era, which lies in year yoe of the era
CivilFromYoe(era, doe, yoe) ==
  CivilFromDoy(era, yoe, DayOfYear(doe, yoe), (5 * DayOfYear(doe, yoe) + 2) \div 153)

\* civil date of shifted day number zz, which lies in era
CivilFromEra(zz, era) ==
  CivilFromYoe(era, zz - era * 146097, YearOfEra(zz - era * 146097))

\* year, month (1..12) and day of month of day number z (days since 1970-01-01);
\* the day number is worked out once, then converted
CivilFromDays(z) ==
  CHOOSE civil \in {CivilFromEra(day + 719468, (day + 719468) \div 146097) : day \in {z}} :
    TRUE

\* March-based month index of month m in 1..12
MonthIndex(m) == IF m > 2 THEN m - 3 ELSE m + 9

\* day number of day doy of year yoe of era
DaysFromEra(era, yoe, doy) ==
  era * 146097 + (yoe * 365 + yoe \div 4 - yoe \div 100 + doy) - 719468

\* day number of day d of month m of the March-based year yy
DaysFromYear(yy, m, d) ==
  DaysFromEra(yy \div 400, yy - (yy \div 400) * 400,
              (153 * MonthIndex(m) + 2) \div 5 + d - 1)

\* day number of the civil date y-m-d, m in 1..12; the date is worked out
\* once, then converted
DaysFromCivil(y, m, d) ==
  CHOOSE number \in {DaysFromYear(IF ymd[2] <= 2 THEN ymd[1] - 1 ELSE ymd[1], ymd[2], ymd[3]) :
                       ymd \in {<<y, m, d>>}} : TRUE

\* new Date(date.getTime() + k)
AddMs(date, k) == <<date[1] + (date[2] + k) \div MsPerDay, (date[2] + k) % MsPerDay>>

\* a.getTime() - b.getTime()
DiffMs(a, b) == (a[1] - b[1]) * MsPerDay + (a[2] - b[2])

\* the Invalid Date, whose time value is NaN: the one pair with a negative
\* millisecond of day
InvalidDate == <<0, -1>>

\* isNaN(date.getTime())
IsNaNDate(date) == date[2] < 0

\* a < b on Date objects, false when either is the Invalid Date
DateLT(a, b) ==
  /\ ~IsNaNDate(a)
  /\ ~IsNaNDate(b)
  /\ (a[1] < b[1] \/ (a[1] = b[1] /\ a[2] < b[2]))

\* a <= b on Date objects, false when either is the Invalid Date
DateLE(a, b) ==
  /\ ~IsNaNDate(a)
  /\ ~IsNaNDate(b)
  /\ (a = b \/ DateLT(a, b))

\* the string is a date-time that Date can parse: month 1..12, day 1..31 and
\* a time of day
IsIsoTimestamp(iso) ==
  /\ iso[2] \in 1..12
  /\ iso[3] \in 1..31
  /\ iso[4] \in 0..(MsPerDay - 1)

\* new Date(isoString): the Invalid Date for a string that does not parse
NewDate(iso) ==
  IF IsIsoTimestamp(iso) THEN <<DaysFromCivil(iso[1], iso[2], iso[3]), iso[4]>>
  ELSE InvalidDate

\* date.toISOString().split("T")[0]
DateKey(date) == CivilFromDays(date[1])

\* date.toISOString().substring(0, 7)
MonthKey(date) == LET c == CivilFromDays(date[1]) IN <<c[1], c[2]>>

\* date.getUTCHours()
getUTCHours(date) == date[2] \div MsPerHour

\* date.getUTCMonth(), 0..11
getUTCMonth(date) == CivilFromDays(date[1])[2] - 1

\* date.getUTCFullYear()
getUTCFullYear(date) == CivilFromDays(date[1])[1]

\* date.getUTCDate()
getUTCDate(date) == CivilFromDays(date[1])[3]

\* new Date(Date.UTC(year, month0, day, 0, 0, 0, ms)); month0 may exceed 11
\* (setUTCMonth(getUTCMonth() + 1)) and then carries into the year
DateUTC(year, month0, day, ms) ==
  <<DaysFromCivil(year + month0 \div 12, (month0 % 12) + 1, day), ms>>

\* date.setUTCHours(23, 59, 59, 999)
setUTCHoursEndOfDay(date) == <<date[1], MsPerDay - 1>>

\* strings "YYYY-MM-DD" (or "YYYY-MM") a and b: a.localeCompare(b) < 0
KeyLT(a, b) ==
  \E i \in 1..Len(a) : a[i] < b[i] /\ \A j \in 1..(i - 1) : a[j] = b[j]

(***************************************************************************)
(* report.ts: local time (UTC+1).                                          *)
(***************************************************************************)
toLocalTime(date) == AddMs(date, TIMEZONE_OFFSET_MS)

\* the start of the UTC day instead of the UTC+1 day (setUTCHours(0, 0, 0, 0))
getStartOfDayUTC(date) == <<date[1], 0>>

getStartOfDay(date) ==
  LET localDate  == toLocalTime(date)
      startOfDay == DateUTC(getUTCFullYear(localDate), getUTCMonth(localDate),
                            getUTCDate(localDate), 0)
  IN  AddMs(startOfDay, -TIMEZONE_OFFSET_MS)

getEndOfDay(date) ==
  LET localDate == toLocalTime(date)
      endOfDay  == DateUTC(getUTCFullYear(localDate), getUTCMonth(localDate),
                           getUTCDate(localDate), MsPerDay - 1)
  IN  AddMs(endOfDay, -TIMEZONE_OFFSET_MS)

(***************************************************************************)
(* report.ts: periods.                                                     *)
(***************************************************************************)
\* the two directed states exchanged
PeriodStateSwapped(current, next) ==
  IF current.direction = "in" /\ next.direction = "out" THEN "outside"
  ELSE IF current.direction = "out" /\ next.direction = "in" THEN "inside"
  ELSE "unknown"

\* the state of the period between consecutive events current and next
PeriodState(current, next) ==
  IF current.direction = "in" /\ next.direction = "out" THEN "inside"
  ELSE IF current.direction = "out" /\ next.direction = "in" THEN "outside"
  ELSE "unknown"

\* the loop stopping one pair early (i < events.length - 2)
calculatePresencePeriodsShort(events) ==
  [i \in 1..(IF Len(events) <= 1 THEN 0 ELSE Len(events) - 2) |->
     [start         |-> events[i].timestamp,
      end           |-> events[i + 1].timestamp,
      state         |-> PeriodState(events[i], events[i + 1]),
      durationHours |-> DiffMs(NewDate(events[i + 1].timestamp),
                               NewDate(events[i].timestamp))]]

\* every period measured from the first event on, not from the event before
calculatePresencePeriodsFromFirst(events) ==
  [i \in 1..(IF Len(events) = 0 THEN 0 ELSE Len(events) - 1) |->
     [start         |-> events[1].timestamp,
      end           |-> events[i + 1].timestamp,
      state         |-> PeriodState(events[i], events[i + 1]),
      durationHours |-> DiffMs(NewDate(events[i + 1].timestamp),
                               NewDate(events[1].timestamp))]]

calculatePresencePeriods(events) ==
  [i \in 1..(IF Len(events) = 0 THEN 0 ELSE Len(events) - 1) |->
     [start         |-> events[i].timestamp,
      end           |-> events[i + 1].timestamp,
      state         |-> PeriodState(events[i], events[i + 1]),
      durationHours |-> DiffMs(NewDate(events[i + 1].timestamp),
                               NewDate(events[i].timestamp))]]

(***************************************************************************)
(* JavaScript Map helpers.                                                 *)
(***************************************************************************)
EmptyMap == [k \in {} |-> 0]

\* map.has(k)
MapHas(map, k) == k \in DOMAIN map

\* map.set(k, v)
MapSet(map, k, v) == [x \in (DOMAIN map) \cup {k} |-> IF x = k THEN v ELSE map[x]]

\* the keys of a map of "YYYY-MM-DD" or "YYYY-MM" keys, ascending
\* (.sort((a, b) => a.key.localeCompare(b.key)))
RECURSIVE SortedKeys(_)
SortedKeys(keys) ==
  IF keys = {} THEN <<>>
  ELSE LET first == CHOOSE k \in keys : \A o \in keys : o = k \/ KeyLT(k, o)
       IN  <<first>> \o SortedKeys(keys \ {first})

\* array.filter(pred).length for the events with the given direction
CountDirection(events, direction) ==
  Cardinality({i \in 1..Len(events) : events[i].direction = direction})

\* hours added to the field of stat that the state selects
AddHoursByState(stat, state, hours) ==
  IF state = "inside" THEN [stat EXCEPT !.hoursInside = @ + hours]
  ELSE IF state = "outside" THEN [stat EXCEPT !.hoursOutside = @ + hours]
  ELSE [stat EXCEPT !.hoursUnknown = @ + hours]

ZeroHours == [hoursInside |-> 0, hoursOutside |-> 0, hoursUnknown |-> 0]

(***************************************************************************)
(* report.ts: the daily table.                                             *)
(***************************************************************************)
\* one pass of the while loop of splitPeriodAcrossDays: the result after it
SplitDaysBody(period, startDate, endDate, currentDate, result) ==
  LET dayStart     == currentDate
      dayEnd       == AddMs(dayStart, 24 * 60 * 60 * 1000)
      overlapStart == IF DateLT(dayStart, startDate) THEN startDate ELSE dayStart
      overlapEnd   == IF DateLT(endDate, dayEnd) THEN endDate ELSE dayEnd
      hoursInDay   == DiffMs(overlapEnd, overlapStart)
      dateKey      == DateKey(toLocalTime(currentDate))
      existing     == IF MapHas(result, dateKey) THEN result[dateKey]
                      ELSE [state |-> period.state, hours |-> 0]
  IN  IF DateLT(overlapStart, overlapEnd)
      THEN MapSet(result, dateKey, [existing EXCEPT !.hours = @ + hoursInDay])
      ELSE result

\* "currentDate = new Date(currentDate.getTime() + 24 * 60 * 60 * 1000)"
NextDay(currentDate) == AddMs(currentDate, 24 * 60 * 60 * 1000)

\* the while loop of splitPeriodAcrossDays, from currentDate on
RECURSIVE SplitDaysWalk(_, _, _, _, _)
SplitDaysWalk(period, startDate, endDate, currentDate, result) ==
  IF ~DateLT(currentDate, endDate) THEN result
  ELSE SplitDaysWalk(period, startDate, endDate, NextDay(currentDate),
                     SplitDaysBody(period, startDate, endDate, currentDate, result))

splitPeriodAcrossDays(period) ==
  LET startDate == NewDate(period.start)
      endDate   == NewDate(period.end)
  IN  SplitDaysWalk(period, startDate, endDate, getStartOfDay(startDate), EmptyMap)

\* "Initialize all days in the report range": the date keys the loop sets
RECURSIVE InitDays(_, _, _)
InitDays(currentDate, endDate, keys) ==
  IF ~DateLE(currentDate, endDate) THEN keys
  ELSE InitDays(AddMs(currentDate, 24 * 60 * 60 * 1000), endDate,
                keys \cup {DateKey(toLocalTime(currentDate))})

\* "Group events by date": the events pushed to the entry of date
EventsOfDay(events, date) ==
  SelectSeq(events, LAMBDA e : DateKey(toLocalTime(NewDate(e.timestamp))) = date)

\* "Split periods across days": periods[i..] added to dailyMap
RECURSIVE AddPeriodsToDays(_, _, _)
AddPeriodsToDays(dailyMap, periods, i) ==
  IF i > Len(periods) THEN dailyMap
  ELSE LET dayHours == splitPeriodAcrossDays(periods[i])
           added    == [date \in DOMAIN dailyMap |->
                          IF MapHas(dayHours, date)
                          THEN AddHoursByState(dailyMap[date], dayHours[date].state,
                                               dayHours[date].hours)
                          ELSE dailyMap[date]]
       IN  AddPeriodsToDays(added, periods, i + 1)

\* the gap filled only when more than a whole hour is missing
FillGapOverAnHour(data) ==
  LET totalAccountedHours == data.hoursInside + data.hoursOutside + data.hoursUnknown
      missingHours        == Hours24 - totalAccountedHours
  IN  IF missingHours > MsPerHour
      THEN [data EXCEPT !.hoursUnknown = @ + missingHours]
      ELSE data

\* the gap booked as time outside instead of unknown time
FillGapAsOutside(data) ==
  LET totalAccountedHours == data.hoursInside + data.hoursOutside + data.hoursUnknown
      missingHours        == Hours24 - totalAccountedHours
  IN  IF missingHours > GapThreshold
      THEN [data EXCEPT !.hoursOutside = @ + missingHours]
      ELSE data

\* "Fill gaps with unknown time to reach 24 hours per day", for one entry
FillGap(data) ==
  LET totalAccountedHours == data.hoursInside + data.hoursOutside + data.hoursUnknown
      missingHours        == Hours24 - totalAccountedHours
  IN  IF missingHours > GapThreshold
      THEN [data EXCEPT !.hoursUnknown = @ + missingHours]
      ELSE data

calculateDailyStats(events, periods, reportStartDate, reportEndDate) ==
  LET days     == InitDays(getStartOfDay(reportStartDate),
                           getEndOfDay(reportEndDate), {})
      initial  == [date \in days |->
                     [events |-> EventsOfDay(events, date), hoursInside |-> 0,
                      hoursOutside |-> 0, hoursUnknown |-> 0]]
      split    == AddPeriodsToDays(initial, periods, 1)
      dailyMap == [date \in days |-> FillGap(split[date])]
      order    == SortedKeys(days)
  IN  [i \in 1..Len(order) |->
         [date         |-> order[i],
          hoursInside  |-> dailyMap[order[i]].hoursInside,
          hoursOutside |-> dailyMap[order[i]].hoursOutside,
          hoursUnknown |-> dailyMap[order[i]].hoursUnknown,
          entries      |-> CountDirection(dailyMap[order[i]].events, "in"),
          exits        |-> CountDirection(dailyMap[order[i]].events, "out")]]

(***************************************************************************)
(* report.ts: the hour-of-day tables.                                      *)
(***************************************************************************)
\* the hour of day (UTC+1) of an event
EventHour(event) == getUTCHours(toLocalTime(NewDate(event.timestamp)))

calculateHourlyDistribution(events) ==
  [i \in 1..24 |->
     [hour    |-> i - 1,
      entries |-> Cardinality({k \in 1..Len(events) :
                     EventHour(events[k]) = i - 1 /\ events[k].direction = "in"}),
      exits   |-> Cardinality({k \in 1..Len(events) :
                     EventHour(events[k]) = i - 1 /\ events[k].direction # "in"})]]

\* "hourEnd.setTime(hourEnd.getTime() + 60 * 60 * 1000)", "currentTime = hourEnd"
NextHour(currentTime) == AddMs(currentTime, 60 * 60 * 1000)

\* every slot that the period touches counted as a whole hour
HourBodyWholeSlot(period, startDate, endDate, currentTime, hourlyMap) ==
  [hourlyMap EXCEPT ![getUTCHours(toLocalTime(currentTime))] =
     AddHoursByState(@, period.state, MsPerHour)]

\* one pass of the while loop of calculateHourlyPresence: the map after it
HourBody(period, startDate, endDate, currentTime, hourlyMap) ==
  LET hour            == getUTCHours(toLocalTime(currentTime))
      hourStart       == currentTime
      hourEnd         == NextHour(hourStart)
      overlapStart    == IF DateLT(hourStart, startDate) THEN startDate ELSE hourStart
      overlapEnd      == IF DateLT(endDate, hourEnd) THEN endDate ELSE hourEnd
      hoursInThisSlot == DiffMs(overlapEnd, overlapStart)
  IN  IF DateLT(overlapStart, overlapEnd)
      THEN [hourlyMap EXCEPT ![hour] = AddHoursByState(@, period.state, hoursInThisSlot)]
      ELSE hourlyMap

\* the while loop of calculateHourlyPresence for one period, from currentTime on
\* (the map always has its 24 hours; asking for them has the map of a pass
\* worked out before the next pass, as the loop does)
RECURSIVE HourWalk(_, _, _, _, _)
HourWalk(period, startDate, endDate, currentTime, hourlyMap) ==
  IF ~DateLT(currentTime, endDate) \/ DOMAIN hourlyMap = {} THEN hourlyMap
  ELSE HourWalk(period, startDate, endDate, NextHour(currentTime),
                HourBody(period, startDate, endDate, currentTime, hourlyMap))

\* the for loop of calculateHourlyPresence over periods[i..]
RECURSIVE HourlyPeriods(_, _, _)
HourlyPeriods(hourlyMap, periods, i) ==
  IF i > Len(periods) THEN hourlyMap
  ELSE LET startDate == NewDate(periods[i].start)
           endDate   == NewDate(periods[i].end)
       IN  HourlyPeriods(HourWalk(periods[i], startDate, endDate, startDate, hourlyMap),
                         periods, i + 1)

\* the table without its "Initialize all hours" loop: only the hours that
\* some period touches get a row
calculateHourlyPresenceSparse(periods) ==
  LET hourlyMap == HourlyPeriods([h \in 0..23 |-> ZeroHours], periods, 1)
      rows      == [i \in 1..24 |->
                      [hour         |-> i - 1,
                       hoursInside  |-> hourlyMap[i - 1].hoursInside,
                       hoursOutside |-> hourlyMap[i - 1].hoursOutside,
                       hoursUnknown |-> hourlyMap[i - 1].hoursUnknown]]
  IN  SelectSeq(rows, LAMBDA row :
                  row.hoursInside + row.hoursOutside + row.hoursUnknown > 0)

calculateHourlyPresence(periods) ==
  LET hourlyMap == HourlyPeriods([h \in 0..23 |-> ZeroHours], periods, 1)
  IN  [i \in 1..24 |->
         [hour         |-> i - 1,
          hoursInside  |-> hourlyMap[i - 1].hoursInside,
          hoursOutside |-> hourlyMap[i - 1].hoursOutside,
          hoursUnknown |-> hourlyMap[i - 1].hoursUnknown]]

(***************************************************************************)
(* report.ts: the monthly tables.                                          *)
(***************************************************************************)
\* "Initialize all months in the date range": the month keys the loop sets
RECURSIVE InitMonths(_, _, _)
InitMonths(currentMonth, endMonth, keys) ==
  IF ~DateLE(currentMonth, endMonth) THEN keys
  ELSE InitMonths(DateUTC(getUTCFullYear(currentMonth), getUTCMonth(currentMonth) + 1,
                          getUTCDate(currentMonth), currentMonth[2]),
                  endMonth, keys \cup {MonthKey(currentMonth)})

\* the month keys of the range taken in UTC, without the local offset
RangeMonthsUTC(startDate, endDate) ==
  InitMonths(DateUTC(getUTCFullYear(startDate), getUTCMonth(startDate), 1, 0),
             DateUTC(getUTCFullYear(endDate), getUTCMonth(endDate), 1, 0), {})

\* the month keys of the range startDate..endDate (UTC+1)
RangeMonths(startDate, endDate) ==
  LET localStart == toLocalTime(startDate)
      localEnd   == toLocalTime(endDate)
      firstMonth == DateUTC(getUTCFullYear(localStart), getUTCMonth(localStart), 1, 0)
      endMonth   == DateUTC(getUTCFullYear(localEnd), getUTCMonth(localEnd), 1, 0)
  IN  InitMonths(firstMonth, endMonth, {})

\* the month key (UTC+1) of an event
EventMonth(event) == MonthKey(toLocalTime(NewDate(event.timestamp)))

\* the prey count taken over the events with a valid direction only
calculateMonthlyPreyCountValidOnly(events, startDate, endDate) ==
  LET months == RangeMonths(startDate, endDate)
      order  == SortedKeys(months)
  IN  [i \in 1..Len(order) |->
         [month     |-> order[i],
          preyCount |-> Cardinality({k \in 1..Len(events) :
                           /\ events[k].direction # "invalid"
                           /\ events[k].prey /\ EventMonth(events[k]) = order[i]})]]

calculateMonthlyPreyCount(events, startDate, endDate) ==
  LET months == RangeMonths(startDate, endDate)
      order  == SortedKeys(months)
  IN  [i \in 1..Len(order) |->
         [month     |-> order[i],
          preyCount |-> Cardinality({k \in 1..Len(events) :
                           events[k].prey /\ EventMonth(events[k]) = order[i]})]]

\* monthStartUTC: the instant at which the local month of currentTime begins
MonthStartUTC(currentTime) ==
  LET localTime  == toLocalTime(currentTime)
      monthStart == DateUTC(getUTCFullYear(localTime), getUTCMonth(localTime), 1, 0)
  IN  AddMs(monthStart, -TIMEZONE_OFFSET_MS)

\* monthEndUTC: the instant at which the local month after that of currentTime
\* begins
MonthEndUTC(currentTime) ==
  LET localTime  == toLocalTime(currentTime)
      monthStart == DateUTC(getUTCFullYear(localTime), getUTCMonth(localTime), 1, 0)
      monthEnd   == DateUTC(getUTCFullYear(monthStart), getUTCMonth(monthStart) + 1, 1, 0)
  IN  AddMs(monthEnd, -TIMEZONE_OFFSET_MS)

\* the loop stepping to the start of the month it is in
NextMonthStart(currentTime) == MonthStartUTC(currentTime)

\* "Move to next month": "currentTime = monthEndUTC"
NextMonth(currentTime) == MonthEndUTC(currentTime)

\* one pass of the while loop of calculateMonthlyPresence: the map after it
MonthBody(period, startDate, endDate, currentTime, monthlyMap) ==
  LET month            == getUTCMonth(toLocalTime(currentTime)) + 1
      monthStartUTC    == MonthStartUTC(currentTime)
      monthEndUTC      == MonthEndUTC(currentTime)
      overlapStart     == IF DateLT(monthStartUTC, startDate) THEN startDate
                          ELSE monthStartUTC
      overlapEnd       == IF DateLT(endDate, monthEndUTC) THEN endDate ELSE monthEndUTC
      hoursInThisMonth == DiffMs(overlapEnd, overlapStart)
  IN  IF DateLT(overlapStart, overlapEnd)
      THEN [monthlyMap EXCEPT ![month] =
              AddHoursByState(@, period.state, hoursInThisMonth)]
      ELSE monthlyMap

\* the while loop of calculateMonthlyPresence for one period, from currentTime on
RECURSIVE MonthWalk(_, _, _, _, _)
MonthWalk(period, startDate, endDate, currentTime, monthlyMap) ==
  IF ~DateLT(currentTime, endDate) THEN monthlyMap
  ELSE MonthWalk(period, startDate, endDate, NextMonth(currentTime),
                 MonthBody(period, startDate, endDate, currentTime, monthlyMap))

\* the for loop of calculateMonthlyPresence over periods[i..]
RECURSIVE MonthlyPeriods(_, _, _)
MonthlyPeriods(monthlyMap, periods, i) ==
  IF i > Len(periods) THEN monthlyMap
  ELSE LET startDate == NewDate(periods[i].start)
           endDate   == NewDate(periods[i].end)
       IN  MonthlyPeriods(MonthWalk(periods[i], startDate, endDate, startDate, monthlyMap),
                          periods, i + 1)

calculateMonthlyPresence(periods) ==
  LET monthlyMap == MonthlyPeriods([m \in 1..12 |-> ZeroHours], periods, 1)
  IN  [m \in 1..12 |->
         [month        |-> m,
          hoursInside  |-> monthlyMap[m].hoursInside,
          hoursOutside |-> monthlyMap[m].hoursOutside,
          hoursUnknown |-> monthlyMap[m].hoursUnknown]]

\* day.date.substring(0, 7)
MonthOfDateKey(date) == <<date[1], date[2]>>

\* "Aggregate daily stats by month": dailyStats[i..] added to monthlyMap
RECURSIVE AddDaysToMonths(_, _, _)
AddDaysToMonths(monthlyMap, dailyStats, i) ==
  IF i > Len(dailyStats) THEN monthlyMap
  ELSE LET day      == dailyStats[i]
           monthKey == MonthOfDateKey(day.date)
           stat     == IF MapHas(monthlyMap, monthKey) THEN monthlyMap[monthKey]
                       ELSE ZeroHours
           summed   == [hoursInside  |-> stat.hoursInside + day.hoursInside,
                        hoursOutside |-> stat.hoursOutside + day.hoursOutside,
                        hoursUnknown |-> stat.hoursUnknown + day.hoursUnknown]
       IN  AddDaysToMonths(MapSet(monthlyMap, monthKey, summed), dailyStats, i + 1)

\* the series built by splitting the periods by month again: the hours of
\* calculateMonthlyPresence under the month keys of the daily table
calculateMonthlyTimeSeriesFromPeriods(periods, dailyStats) ==
  LET presence == calculateMonthlyPresence(periods)
      order    == SortedKeys({MonthOfDateKey(dailyStats[i].date) : i \in 1..Len(dailyStats)})
  IN  [i \in 1..Len(order) |->
         [month        |-> order[i],
          hoursInside  |-> presence[order[i][2]].hoursInside,
          hoursOutside |-> presence[order[i][2]].hoursOutside,
          hoursUnknown |-> presence[order[i][2]].hoursUnknown]]

calculateMonthlyTimeSeries(periods, dailyStats) ==
  LET monthlyMap == AddDaysToMonths(EmptyMap, dailyStats, 1)
      order      == SortedKeys(DOMAIN monthlyMap)
  IN  [i \in 1..Len(order) |->
         [month        |-> order[i],
          hoursInside  |-> monthlyMap[order[i]].hoursInside,
          hoursOutside |-> monthlyMap[order[i]].hoursOutside,
          hoursUnknown |-> monthlyMap[order[i]].hoursUnknown]]

\* the table with the month of startDate as its only row
calculateMonthlyActivityStartMonth(events, startDate, endDate) ==
  LET month == MonthKey(toLocalTime(startDate))
  IN  << [month   |-> month,
          entries |-> Cardinality({k \in 1..Len(events) :
                         EventMonth(events[k]) = month /\ events[k].direction = "in"}),
          exits   |-> Cardinality({k \in 1..Len(events) :
                         EventMonth(events[k]) = month /\ events[k].direction = "out"})] >>

calculateMonthlyActivity(events, startDate, endDate) ==
  LET months == RangeMonths(startDate, endDate)
      order  == SortedKeys(months)
  IN  [i \in 1..Len(order) |->
         [month   |-> order[i],
          entries |-> Cardinality({k \in 1..Len(events) :
                         EventMonth(events[k]) = order[i] /\ events[k].direction = "in"}),
          exits   |-> Cardinality({k \in 1..Len(events) :
                         EventMonth(events[k]) = order[i] /\ events[k].direction = "out"})]]

(***************************************************************************)
(* The state: the event file and the value the last call returned.         *)
(***************************************************************************)
VARIABLES
  store,   \* the parsed content of data/events.json, <<>> while it does not exist
  ret,     \* what the last operation returned to its caller
  images,  \* the images directory: whether it exists, and its files
  chat,    \* the messages of the Telegram group, oldest first
  fetch,   \* the run of fetchHistory in progress, if any
  walk,    \* the while loop of a period splitter in progress, if any
  handlers,\* the photo handlers of the bot, each up to its call of addEvent
  scan     \* the run of rescanImages between its loadEvents and its saveEvents

vars == <<store, ret, images, chat, fetch, walk, handlers, scan>>

\* the Telegram side of the state
telegram == <<chat, fetch>>

\* the loops and calls that are followed step by step
stepwise == <<walk, handlers, scan>>

(***************************************************************************)
(* storage.ts                                                              *)
(***************************************************************************)
loadEvents == store

getEventsByDateRange(startDate, endDate) ==
  SelectSeq(loadEvents,
            LAMBDA event : /\ DateLE(startDate, NewDate(event.timestamp))
                           /\ DateLE(NewDate(event.timestamp), endDate))

\* event put in front of the first element of the sorted array that is not
\* earlier than it: an unstable sort
InsertSortedBeforeTies(sorted, event) ==
  LET earlier == {i \in 1..Len(sorted) :
                    DateLT(NewDate(sorted[i].timestamp), NewDate(event.timestamp))}
      at      == IF earlier = {} THEN 0
                 ELSE CHOOSE i \in earlier : \A j \in earlier : j <= i
  IN  SubSeq(sorted, 1, at) \o <<event>> \o SubSeq(sorted, at + 1, Len(sorted))

\* event put behind the last element of the sorted array that is not later than it
InsertSorted(sorted, event) ==
  LET notLater == {i \in 1..Len(sorted) :
                     ~DateLT(NewDate(event.timestamp), NewDate(sorted[i].timestamp))}
      at       == IF notLater = {} THEN 0
                  ELSE CHOOSE i \in notLater : \A j \in notLater : j <= i
  IN  SubSeq(sorted, 1, at) \o <<event>> \o SubSeq(sorted, at + 1, Len(sorted))

\* events.sort((a, b) => new Date(a.timestamp).getTime() - new Date(b.timestamp).getTime()),
\* a stable sort
RECURSIVE SortByTimestamp(_)
SortByTimestamp(events) ==
  IF events = <<>> THEN <<>>
  ELSE InsertSorted(SortByTimestamp(SubSeq(events, 1, Len(events) - 1)),
                    events[Len(events)])

(***************************************************************************)
(* report.ts: generateReportData                                           *)
(***************************************************************************)
\* array.reduce((sum, x) => sum + F(x), 0), over array[i..]
RECURSIVE Reduce(_, _, _)
Reduce(F(_), array, i) ==
  IF i > Len(array) THEN 0 ELSE F(array[i]) + Reduce(F, array, i + 1)

\* calculateTotalTimeByState: the hours of the periods, by state (defined in
\* report.ts and called nowhere)
calculateTotalTimeByState(periods) ==
  LET Of(state) == Reduce(LAMBDA period :
                            IF period.state = state THEN period.durationHours ELSE 0,
                          periods, 1)
  IN  [inside |-> Of("inside"), outside |-> Of("outside"), unknown |-> Of("unknown")]

\* the totals taken from the period list instead of the daily table
ReportTotalsFromPeriods(periods, dailyStats) == calculateTotalTimeByState(periods)

\* "Calculate totals from daily stats (which include gap filling)"
ReportTotals(periods, dailyStats) ==
  [inside  |-> Reduce(LAMBDA day : day.hoursInside, dailyStats, 1),
   outside |-> Reduce(LAMBDA day : day.hoursOutside, dailyStats, 1),
   unknown |-> Reduce(LAMBDA day : day.hoursUnknown, dailyStats, 1)]

\* the filter left out: every event counts as valid
validEventsUnfiltered(allEvents) == allEvents

\* "Filter out invalid events for presence calculation"
validEventsOf(allEvents) == SelectSeq(allEvents, LAMBDA e : e.direction # "invalid")

generateReportData(startDate, endDate) ==
  LET allEvents   == getEventsByDateRange(startDate, endDate)
      validEvents == validEventsOf(allEvents)
      periods     == calculatePresencePeriods(validEvents)
      dailyStats  == calculateDailyStats(validEvents, periods, startDate, endDate)
      totals      == ReportTotals(periods, dailyStats)
  IN  [startDate          |-> DateKey(startDate),
       endDate            |-> DateKey(endDate),
       events             |-> allEvents,
       periods            |-> periods,
       totalTimeInside    |-> totals.inside,
       totalTimeOutside   |-> totals.outside,
       totalTimeUnknown   |-> totals.unknown,
       totalEntries       |-> CountDirection(validEvents, "in"),
       totalExits         |-> CountDirection(validEvents, "out"),
       dailyStats         |-> dailyStats,
       hourlyDistribution |-> calculateHourlyDistribution(validEvents),
       hourlyPresence     |-> calculateHourlyPresence(periods),
       monthlyPreyCount   |-> calculateMonthlyPreyCount(allEvents, startDate, endDate),
       monthlyPresence    |-> calculateMonthlyPresence(periods),
       monthlyTimeSeries  |-> calculateMonthlyTimeSeries(periods, dailyStats),
       monthlyActivity    |-> calculateMonthlyActivity(validEvents, startDate, endDate)]

(***************************************************************************)
(* index.ts                                                                *)
(***************************************************************************)
\* parseDate("YYYY-MM-DD"): midnight UTC of that day
parseDate(str) == NewDate(<<str[1], str[2], str[3], 0>>)

(***************************************************************************)
(* Inputs.                                                                 *)
(***************************************************************************)
\* the ISO string of year-month-day, h:mi:s UTC
Iso(y, m, d, h, mi, s) == <<y, m, d, ((h * 60 + mi) * 60 + s) * 1000>>

\* instants at which a photo arrives: either side of the local midnight of the
\* turn of the year (both on 2024-12-31 in UTC), the next local midnight, and
\* ten seconds before the local midnight after that
Timestamps ==
  { Iso(2024, 12, 31, 22, 30, 0), Iso(2024, 12, 31, 23, 30, 0),
    Iso(2025, 1, 1, 23, 0, 0),    Iso(2025, 1, 2, 22, 59, 50) }

\* direction and prey flag of a recorded event: the cat coming in without and
\* with prey, going out, and an unclassifiable image, which has its prey flag
\* set for the prey count to tell it from a valid event
Classifications ==
  { [direction |-> "in", prey |-> FALSE], [direction |-> "in", prey |-> TRUE],
    [direction |-> "out", prey |-> FALSE], [direction |-> "invalid", prey |-> TRUE] }

Events ==
  { [timestamp |-> t, direction |-> c.direction, prey |-> c.prey] :
      t \in Timestamps, c \in Classifications }

\* the --from and --to arguments of the report command: one UTC day with
\* events before and after it, and the three UTC days that hold every event
Ranges ==
  { <<<<2025, 1, 1>>, <<2025, 1, 1>>>>, <<<<2024, 12, 31>>, <<2025, 1, 2>>>> }

NoReturn == [op |-> "addEvent"]

(***************************************************************************)
(* Operations.                                                             *)
(***************************************************************************)
\* the images directory before the first image is saved
NoImages == [exists |-> FALSE, files |-> EmptyMap]

\* no run of fetchHistory in progress
Idle == [pc |-> "idle"]

\* the photo handlers that may be in progress at once
Handlers == {"first", "second"}

Init ==
  /\ store = <<>>
  /\ ret = NoReturn
  /\ images = NoImages
  /\ chat = <<>>
  /\ fetch = Idle
  /\ walk = Idle
  /\ handlers = [h \in Handlers |-> Idle]
  /\ scan = Idle

\* storage.ts addEvent: load, push, sort, save
addEvent(event) ==
  /\ Len(store) < MaxEvents
  /\ store' = SortByTimestamp(Append(loadEvents, event))
  /\ ret' = NoReturn
  /\ UNCHANGED <<images, telegram, stepwise>>

\* index.ts runReport with --from and --to, up to the return of generateReportData
runReport(from, to) ==
  LET startDate == parseDate(from)
      endDate   == setUTCHoursEndOfDay(parseDate(to))
  IN  /\ ret' = [op        |-> "generateReportData",
                 startDate |-> startDate,
                 endDate   |-> endDate,
                 data      |-> generateReportData(startDate, endDate)]
      /\ UNCHANGED <<store, images, telegram, stepwise>>

Next ==
  \/ \E event \in Events : addEvent(event)
  \/ \E range \in Ranges : runReport(range[1], range[2])

Spec == Init /\ [][Next]_vars

(***************************************************************************)
(* Reports over an events file as found on disk: data/events.json is read  *)
(* as it is, whoever wrote it, and a timestamp is any string.              *)
(***************************************************************************)
\* largest number of events of an events file found on disk
MaxFileEvents == 2

\* a timestamp string that Date cannot parse: month 13
UnparsableTimestamp == <<2025, 13, 1, 0>>

\* the events of a file found on disk: the recorded ones and two whose
\* timestamp does not parse
FileEvents ==
  Events \cup { [timestamp |-> UnparsableTimestamp, direction |-> d, prey |-> FALSE] :
                  d \in {"in", "out"} }

\* the events files found on disk: the events with a parsable timestamp in
\* timestamp order, as addEvent leaves them
EventFiles ==
  { file \in UNION { [1..n -> FileEvents] : n \in 0..MaxFileEvents } :
      \A i, j \in 1..Len(file) :
         i < j => ~DateLT(NewDate(file[j].timestamp), NewDate(file[i].timestamp)) }

InitLoad ==
  /\ store \in EventFiles
  /\ ret = NoReturn
  /\ images = NoImages
  /\ chat = <<>>
  /\ fetch = Idle
  /\ walk = Idle
  /\ handlers = [h \in Handlers |-> Idle]
  /\ scan = Idle

NextLoad == \E range \in Ranges : runReport(range[1], range[2])

SpecLoad == InitLoad /\ [][NextLoad]_vars

(***************************************************************************)
(* ocr.ts.  What Tesseract recognises in an image is the record of its     *)
(* text and its confidence; a text is the record of how many of its lines  *)
(* read "out - skipped prey detection" (out), "in - no prey detected"      *)
(* (inNoPrey) and "in - <word> prey detected" with another word than "no"  *)
(* (inPrey).  A confidence is kept in hundredths: 0.9 is 90.               *)
(***************************************************************************)
\* the prey test made before the test for "out"
analyzeTextPreyFirst(rawText) ==
  IF rawText.inPrey >= 1
  THEN [direction |-> "in", confidence |-> 90, prey |-> TRUE, rawText |-> rawText]
  ELSE IF rawText.out >= 4
  THEN [direction |-> "out", confidence |-> 90, prey |-> FALSE, rawText |-> rawText]
  ELSE IF rawText.inNoPrey >= 4
  THEN [direction |-> "in", confidence |-> 90, prey |-> FALSE, rawText |-> rawText]
  ELSE [direction |-> "invalid", confidence |-> 0, prey |-> FALSE, rawText |-> rawText]

\* analyzeText of the latest revision
analyzeText(rawText) ==
  LET outCount      == rawText.out
      inNoPreyCount == rawText.inNoPrey
      \* "in - <word> prey detected" matches the "no prey" lines as well,
      \* which the filter on "no" takes out again
      inPreyMatches == rawText.inNoPrey + rawText.inPrey
      inPreyCount   == inPreyMatches - rawText.inNoPrey
  IN  IF outCount >= 4
      THEN [direction |-> "out", confidence |-> 90, prey |-> FALSE, rawText |-> rawText]
      ELSE IF inPreyCount >= 1
      THEN [direction |-> "in", confidence |-> 90, prey |-> TRUE, rawText |-> rawText]
      ELSE IF inNoPreyCount >= 4
      THEN [direction |-> "in", confidence |-> 90, prey |-> FALSE, rawText |-> rawText]
      ELSE [direction |-> "invalid", confidence |-> 0, prey |-> FALSE, rawText |-> rawText]

\* detectDirection: the text of the region that config crops, analysed
detectDirection(imageBuffer, config) == analyzeText(imageBuffer.cropped[config].text)

\* detectDirectionFullImage: the text of the whole image, analysed
detectDirectionFullImage(imageBuffer) == analyzeText(imageBuffer.full.text)

\* "Run OCR": the cropped region, and the full image if that is invalid
Classify(imageBuffer, config) ==
  LET ocrResult == detectDirection(imageBuffer, config)
  IN  IF ocrResult.direction = "invalid" THEN detectDirectionFullImage(imageBuffer)
      ELSE ocrResult

\* the direction of the older revision of ocr.ts: "in", "out" or "null"
OlderDirection(recognised) ==
  LET hasIn  == recognised.text.inNoPrey + recognised.text.inPrey > 0
      hasOut == recognised.text.out > 0
  IN  IF hasIn /\ ~hasOut THEN "in" ELSE IF hasOut THEN "out" ELSE "null"

\* detectDirection and detectDirectionFullImage of the older revision
OlderDetect(recognised) ==
  [direction  |-> OlderDirection(recognised),
   confidence |-> recognised.confidence,
   rawText    |-> recognised.text]

\* the OCR of the older bot: the full image if the cropped region gives no
\* direction or a confidence under 0.5
OlderClassify(imageBuffer, config) ==
  LET ocrResult == OlderDetect(imageBuffer.cropped[config])
  IN  IF ocrResult.direction = "null" \/ ocrResult.confidence < 50
      THEN OlderDetect(imageBuffer.full)
      ELSE ocrResult

(***************************************************************************)
(* storage.ts generateEventId, telegram.ts: the bot.                       *)
(***************************************************************************)
\* evt_${Date.now()}_${random}
generateEventId(now, random) == <<"evt", now, random>>

\* `${eventId}.jpg`
ImageFileName(eventId) == <<eventId, "jpg">>

\* saveImage: the directory made if missing, the buffer written
saveImage(dir, imageBuffer, eventId) ==
  [exists |-> TRUE,
   files  |-> MapSet(dir.files, ImageFileName(eventId),
                     [buffer |-> imageBuffer, readable |-> TRUE])]

\* the event that the photo handler of the latest bot records
PhotoEvent(config, now, random, imageBuffer) ==
  LET ocrResult == Classify(imageBuffer, config)
      eventId   == generateEventId(now, random)
  IN  [id         |-> eventId,
       timestamp  |-> now,
       direction  |-> ocrResult.direction,
       confidence |-> ocrResult.confidence,
       prey       |-> ocrResult.prey,
       imageFile  |-> ImageFileName(eventId),
       rawText    |-> ocrResult.rawText]

\* the event of an older bot, before events had a prey flag and a raw text:
\* telegram.ts, and with keepImage the revision that kept the image, whose
\* PresenceEvent is { id, timestamp, direction, confidence, imageFile? }
OlderPhotoEvent(config, now, random, imageBuffer, keepImage) ==
  LET ocrResult == OlderClassify(imageBuffer, config)
      eventId   == generateEventId(now, random)
      event     == [id         |-> eventId,
                    timestamp  |-> now,
                    direction  |-> ocrResult.direction,
                    confidence |-> ocrResult.confidence]
  IN  IF keepImage
      THEN [f \in DOMAIN event \cup {"imageFile"} |->
              IF f = "imageFile" THEN ImageFileName(eventId) ELSE event[f]]
      ELSE event

(***************************************************************************)
(* rescan.ts                                                               *)
(***************************************************************************)
\* the assignment that leaves the prey flag as it was
AssignOcrResultNoPrey(event, ocrResult) ==
  [f \in DOMAIN event \cup {"direction", "confidence", "rawText"} |->
     IF f \in {"direction", "confidence", "rawText"} THEN ocrResult[f]
     ELSE event[f]]

\* the assignment that rebuilds the event from the OCR result and loses the
\* name of its image file
AssignOcrResultDropImage(event, ocrResult) ==
  [f \in (DOMAIN event \ {"imageFile"}) \cup {"direction", "confidence", "prey", "rawText"} |->
     IF f \in {"direction", "confidence", "prey", "rawText"} THEN ocrResult[f]
     ELSE event[f]]

\* event with the fields direction, confidence, prey and rawText assigned
\* from ocrResult
AssignOcrResult(event, ocrResult) ==
  [f \in DOMAIN event \cup {"direction", "confidence", "prey", "rawText"} |->
     IF f \in {"direction", "confidence", "prey", "rawText"} THEN ocrResult[f]
     ELSE event[f]]

\* the change test on the direction alone
hasChangedDirectionOnly(event, ocrResult) == event.direction # ocrResult.direction

\* event.direction !== ocrResult.direction || event.prey !== ocrResult.prey,
\* a missing prey being undefined
hasChanged(event, ocrResult) ==
  \/ event.direction # ocrResult.direction
  \/ "prey" \notin DOMAIN event
  \/ event.prey # ocrResult.prey

\* the loop that gives up at the first image it cannot read
RECURSIVE RescanWalkAbort(_, _, _, _, _, _, _, _)
RescanWalkAbort(events, i, dir, config, startDate, endDate, rescanned, updated) ==
  IF i > Len(events)
  THEN [events |-> events, rescanned |-> rescanned, updated |-> updated]
  ELSE LET event     == events[i]
           eventDate == NewDate(event.timestamp)
           skip      == RescanWalkAbort(events, i + 1, dir, config, startDate, endDate,
                                        rescanned, updated)
       IN  IF DateLT(eventDate, startDate) \/ DateLT(endDate, eventDate) THEN skip
           ELSE IF "imageFile" \notin DOMAIN event THEN skip
           ELSE IF ~MapHas(dir.files, event.imageFile) THEN skip
           ELSE IF ~dir.files[event.imageFile].readable
           THEN [events |-> events, rescanned |-> rescanned, updated |-> updated]
           ELSE LET ocrResult == Classify(dir.files[event.imageFile].buffer, config)
                IN  IF hasChanged(event, ocrResult)
                    THEN RescanWalkAbort([events EXCEPT ![i] = AssignOcrResult(event, ocrResult)],
                                         i + 1, dir, config, startDate, endDate,
                                         rescanned + 1, updated + 1)
                    ELSE RescanWalkAbort(events, i + 1, dir, config, startDate, endDate,
                                         rescanned + 1, updated)

\* the loop that counts an event whose image file is gone as rescanned
RECURSIVE RescanWalkCountMissing(_, _, _, _, _, _, _, _)
RescanWalkCountMissing(events, i, dir, config, startDate, endDate, rescanned, updated) ==
  IF i > Len(events)
  THEN [events |-> events, rescanned |-> rescanned, updated |-> updated]
  ELSE LET event     == events[i]
           eventDate == NewDate(event.timestamp)
           skip      == RescanWalkCountMissing(events, i + 1, dir, config, startDate,
                                               endDate, rescanned, updated)
       IN  IF DateLT(eventDate, startDate) \/ DateLT(endDate, eventDate) THEN skip
           ELSE IF "imageFile" \notin DOMAIN event THEN skip
           ELSE IF ~MapHas(dir.files, event.imageFile)
           THEN RescanWalkCountMissing(events, i + 1, dir, config, startDate, endDate,
                                       rescanned + 1, updated)
           ELSE IF ~dir.files[event.imageFile].readable THEN skip
           ELSE LET ocrResult == Classify(dir.files[event.imageFile].buffer, config)
                IN  IF hasChanged(event, ocrResult)
                    THEN RescanWalkCountMissing(
                           [events EXCEPT ![i] = AssignOcrResult(event, ocrResult)],
                           i + 1, dir, config, startDate, endDate,
                           rescanned + 1, updated + 1)
                    ELSE RescanWalkCountMissing(events, i + 1, dir, config, startDate,
                                                endDate, rescanned + 1, updated)

\* the for loop of rescanImages from events[i] on: the events, and the
\* counters rescanned and updated
RECURSIVE RescanWalk(_, _, _, _, _, _, _, _)
RescanWalk(events, i, dir, config, startDate, endDate, rescanned, updated) ==
  IF i > Len(events)
  THEN [events |-> events, rescanned |-> rescanned, updated |-> updated]
  ELSE LET event     == events[i]
           eventDate == NewDate(event.timestamp)
           skip      == RescanWalk(events, i + 1, dir, config, startDate, endDate,
                                   rescanned, updated)
       IN  IF DateLT(eventDate, startDate) \/ DateLT(endDate, eventDate) THEN skip
           ELSE IF "imageFile" \notin DOMAIN event THEN skip
           ELSE IF ~MapHas(dir.files, event.imageFile) THEN skip
           \* readFile or the OCR throws: caught and logged
           ELSE IF ~dir.files[event.imageFile].readable THEN skip
           ELSE LET ocrResult == Classify(dir.files[event.imageFile].buffer, config)
                IN  IF hasChanged(event, ocrResult)
                    THEN RescanWalk([events EXCEPT ![i] = AssignOcrResult(event, ocrResult)],
                                    i + 1, dir, config, startDate, endDate,
                                    rescanned + 1, updated + 1)
                    ELSE RescanWalk(events, i + 1, dir, config, startDate, endDate,
                                    rescanned + 1, updated)

\* "Save updated events": the lists handed to saveEvents, in call order
SavesOf(walked) == IF walked.updated > 0 THEN <<walked.events>> ELSE <<>>


(***************************************************************************)
(* Inputs of the bot and of the rescan.                                    *)
(***************************************************************************)
\* a recognised text with the given line counts, read with confidence 0.8
Recognised(out, inNoPrey, inPrey) ==
  [text |-> [out |-> out, inNoPrey |-> inNoPrey, inPrey |-> inPrey], confidence |-> 80]

\* the crop regions a run is configured with (OCR_CROP_X, ... of the
\* environment): the one that frames the caption and one that misses it
Configs == {"framed", "shifted"}

\* the photos of the cat flap camera: an exit, read the same with either
\* crop region; an entry whose cropped caption hides that there is prey; and
\* a photo whose caption only the framed region shows
Photos ==
  { [cropped |-> [c \in Configs |-> Recognised(4, 0, 0)], full |-> Recognised(4, 0, 0)],
    [cropped |-> [c \in Configs |->
                    IF c = "framed" THEN Recognised(0, 4, 0) ELSE Recognised(0, 0, 0)],
     full    |-> Recognised(0, 3, 1)],
    [cropped |-> [c \in Configs |->
                    IF c = "framed" THEN Recognised(0, 1, 0) ELSE Recognised(0, 0, 0)],
     full    |-> Recognised(0, 0, 0)] }

\* the instants at which the bot receives a photo
PhotoTimes == { Iso(2025, 1, 1, 23, 0, 0), Iso(2025, 1, 2, 22, 59, 50) }

\* the random suffixes of event ids
Randoms == {"k3x9pq1"}

(***************************************************************************)
(* Operations of the bot and the rescan.                                   *)
(***************************************************************************)
\* no stored event has the id: Date.now() and the random suffix make it new
FreshId(eventId) == \A k \in 1..Len(store) : store[k].id # eventId

\* part_004 bot.on("photo"): classify, save the image, add the event
onPhoto(config, now, random, imageBuffer) ==
  /\ Len(store) < MaxEvents
  /\ FreshId(generateEventId(now, random))
  /\ images' = saveImage(images, imageBuffer, generateEventId(now, random))
  /\ store' = SortByTimestamp(Append(loadEvents,
                                     PhotoEvent(config, now, random, imageBuffer)))
  /\ ret' = NoReturn
  /\ UNCHANGED <<telegram, stepwise>>

\* bot.on("photo") of the older bots: an event only if a direction was read
onPhotoOlder(config, now, random, imageBuffer, keepImage) ==
  /\ Len(store) < MaxEvents
  /\ FreshId(generateEventId(now, random))
  /\ IF OlderClassify(imageBuffer, config).direction = "null"
     THEN UNCHANGED <<store, images>>
     ELSE /\ images' = IF keepImage
                       THEN saveImage(images, imageBuffer, generateEventId(now, random))
                       ELSE images
          /\ store' = SortByTimestamp(Append(loadEvents,
                        OlderPhotoEvent(config, now, random, imageBuffer, keepImage)))
  /\ ret' = NoReturn
  /\ UNCHANGED <<telegram, stepwise>>

\* an image file becomes unreadable (truncated, permissions)
damageImage(file) ==
  /\ MapHas(images.files, file)
  /\ images.files[file].readable
  /\ images' = [images EXCEPT !.files[file].readable = FALSE]
  /\ ret' = [op |-> "damageImage"]
  /\ UNCHANGED <<store, telegram, stepwise>>

\* an image file is deleted
removeImage(file) ==
  /\ MapHas(images.files, file)
  /\ images' = [images EXCEPT !.files = [f \in DOMAIN images.files \ {file} |->
                                           images.files[f]]]
  /\ ret' = [op |-> "removeImage"]
  /\ UNCHANGED <<store, telegram, stepwise>>

\* rescan.ts rescanImages(config, startDate, endDate), the dates as the command
\* line gives them: the error if there is no images directory, else the
\* returned count.  Recorded with it: loaded, the list that loadEvents gave;
\* saveEvents, the lists written to the events file, in call order; and
\* previous, what the call before loaded and saved if it was the same call
rescanImages(config, from, to) ==
  LET startDate == parseDate(from)
      endDate   == setUTCHoursEndOfDay(parseDate(to))
      walked    == RescanWalk(loadEvents, 1, images, config, startDate, endDate, 0, 0)
      saves     == SavesOf(walked)
      same      == /\ ret.op = "rescanImages"
                   /\ "error" \notin DOMAIN ret
                   /\ ret.config = config
                   /\ ret.startDate = startDate
                   /\ ret.endDate = endDate
  IN  /\ IF ~images.exists
         THEN /\ ret' = [op |-> "rescanImages", config |-> config,
                         startDate |-> startDate, endDate |-> endDate,
                         error |-> "Images directory does not exist. No images to rescan."]
              /\ UNCHANGED store
         ELSE /\ ret' = [op |-> "rescanImages", config |-> config,
                         startDate |-> startDate, endDate |-> endDate,
                         value |-> walked.rescanned,
                         loaded |-> loadEvents,
                         saveEvents |-> saves,
                         previous |-> IF same
                                      THEN <<[loaded |-> ret.loaded,
                                              saveEvents |-> ret.saveEvents]>>
                                      ELSE <<>>]
              /\ store' = IF saves = <<>> THEN store ELSE saves[Len(saves)]
      /\ UNCHANGED <<images, telegram, stepwise>>

InitRescan == Init

NextRescan ==
  \/ \E config \in Configs, now \in PhotoTimes, random \in Randoms, photo \in Photos :
        onPhoto(config, now, random, photo)
  \/ \E config \in Configs, now \in PhotoTimes, random \in Randoms, photo \in Photos,
        keepImage \in BOOLEAN :
        onPhotoOlder(config, now, random, photo, keepImage)
  \/ \E file \in DOMAIN images.files : damageImage(file)
  \/ \E file \in DOMAIN images.files : removeImage(file)
  \/ \E config \in Configs, range \in Ranges : rescanImages(config, range[1], range[2])

SpecRescan == InitRescan /\ [][NextRescan]_vars

(***************************************************************************)
(* history.ts: fetchHistory.  A message of the group is the record of its  *)
(* id, its date (<<d, s>>: second s of the day with number d; Telegram     *)
(* counts seconds) and its photo, <<>> or <<imageBuffer>>.  A run is the   *)
(* record fetch: pc tells where it stands, the other fields are the locals *)
(* of fetchHistory.                                                        *)
(***************************************************************************)
\* largest number of messages in the group
MaxMessages == 3

\* const limit = 100
limit == 100

\* new Date(message.date * 1000)
DateOfSeconds(date) == <<date[1], date[2] * 1000>>

\* date.toISOString()
toISOString(date) ==
  LET civil == CivilFromDays(date[1])
  IN  <<civil[1], civil[2], civil[3], date[2]>>

\* the ids of the messages that getMessages returns for offsetId, newest
\* first: the messages older than offsetId, or the latest for offsetId 0
RECURSIVE NewestFirst(_)
NewestFirst(ids) ==
  IF ids = {} THEN <<>>
  ELSE LET newest == CHOOSE id \in ids : \A other \in ids : other <= id
       IN  <<newest>> \o NewestFirst(ids \ {newest})

\* client.getMessages(groupId, { limit, offsetId, reverse: false })
getMessages(messages, offsetId) ==
  LET older == NewestFirst({k \in 1..Len(messages) :
                              offsetId = 0 \/ messages[k].id < offsetId})
  IN  [i \in 1..(IF Len(older) < limit THEN Len(older) ELSE limit) |-> messages[older[i]]]

\* the set with the timestamp left out
AddTimestampForgotten(existingTimestamps, timestamp) == existingTimestamps

\* existingTimestamps.add(timestamp)
AddTimestamp(existingTimestamps, timestamp) == existingTimestamps \cup {timestamp}

\* "Run OCR" of fetchHistory: the full image if the cropped region gives no
\* direction or a confidence under 0.5
FetchClassify(imageBuffer, config) ==
  LET ocrResult == detectDirection(imageBuffer, config)
  IN  IF ocrResult.direction = "null" \/ ocrResult.confidence < 50
      THEN detectDirectionFullImage(imageBuffer)
      ELSE ocrResult

\* the event that fetchHistory builds for a photo
FetchedEvent(eventId, timestamp, ocrResult) ==
  [id         |-> eventId,
   timestamp  |-> timestamp,
   direction  |-> ocrResult.direction,
   confidence |-> ocrResult.confidence]

\* a random suffix that makes the id new; ids differ only in it, as the
\* events of a run are made within the same millisecond
FreshRandom(now) ==
  CHOOSE random \in 1..(Len(store) + 1) : FreshId(generateEventId(now, random))

\* the run after "offset = message.id" or a continue: on to the next message
\* of the batch, or to the next batch
NextMessage(run) ==
  IF run.index < Len(run.messages) THEN [run EXCEPT !.index = @ + 1]
  ELSE [run EXCEPT !.pc = "getMessages", !.messages = <<>>, !.index = 0]

(***************************************************************************)
(* Inputs of the fetch.                                                    *)
(***************************************************************************)
\* the dates of messages: before the one-day range, in both ranges, and
\* after both
MessageDates ==
  { <<DaysFromCivil(2024, 12, 31), (22 * 60 + 30) * 60>>,
    <<DaysFromCivil(2025, 1, 1), 23 * 60 * 60>>,
    <<DaysFromCivil(2025, 1, 3), 0>> }

\* what a message carries: no photo, or a photo of an exit
MessagePhotos ==
  { <<>>,
    << [cropped |-> [c \in Configs |-> Recognised(4, 0, 0)], full |-> Recognised(4, 0, 0)] >> }

\* the instant at which fetched events get their ids
FetchNow == Iso(2025, 1, 4, 12, 0, 0)

\* what client.downloadMedia does: the buffer, nothing, or an exception
Downloads == {"buffer", "null", "throws"}

(***************************************************************************)
(* Operations of the fetch.                                                *)
(***************************************************************************)
\* a message is posted to the group, not earlier than the last one
postMessage(date, photo) ==
  /\ Len(chat) < MaxMessages
  /\ IF chat = <<>> THEN TRUE
     ELSE ~DateLT(DateOfSeconds(date), DateOfSeconds(chat[Len(chat)].date))
  /\ chat' = Append(chat, [id |-> Len(chat) + 1, date |-> date, photo |-> photo])
  /\ UNCHANGED <<store, ret, images, fetch, stepwise>>

\* index.ts runFetch with --from and --to, fetchHistory up to its loop:
\* "Get existing events to avoid duplicates"
runFetch(config, from, to) ==
  /\ fetch.pc = "idle"
  /\ fetch' = [pc                 |-> "getMessages",
               config             |-> config,
               startDate          |-> parseDate(from),
               endDate            |-> setUTCHoursEndOfDay(parseDate(to)),
               existingTimestamps |-> {loadEvents[k].timestamp : k \in 1..Len(loadEvents)},
               eventsAdded        |-> 0,
               offset             |-> 0,
               messages           |-> <<>>,
               index              |-> 0]
  /\ ret' = [op |-> "runFetch"]
  /\ UNCHANGED <<store, images, chat, stepwise>>

\* "Fetch messages in batches": the next batch, or the return after an empty one
fetchBatch ==
  /\ fetch.pc = "getMessages"
  /\ LET messages == getMessages(chat, fetch.offset)
     IN  IF Len(messages) = 0
         THEN /\ fetch' = Idle
              /\ ret' = [op |-> "fetchHistory", value |-> fetch.eventsAdded]
         ELSE /\ fetch' = [fetch EXCEPT !.pc = "message", !.messages = messages,
                                        !.index = 1]
              /\ UNCHANGED ret
  /\ UNCHANGED <<store, images, chat, stepwise>>

\* the body of "for (const message of messages)" for one message
fetchMessage(download) ==
  /\ fetch.pc = "message"
  /\ LET message   == fetch.messages[fetch.index]
         msgDate   == DateOfSeconds(message.date)
         timestamp == toISOString(msgDate)
         advanced  == NextMessage([fetch EXCEPT !.offset = message.id])
     IN  IF DateLT(msgDate, fetch.startDate)
         THEN \* "Reached messages before start date, stopping"
              /\ fetch' = Idle
              /\ ret' = [op |-> "fetchHistory", value |-> fetch.eventsAdded]
              /\ UNCHANGED store
         ELSE IF DateLT(fetch.endDate, msgDate)
         THEN /\ fetch' = NextMessage(fetch)
              /\ UNCHANGED <<store, ret>>
         ELSE IF message.photo = <<>>
         THEN /\ fetch' = advanced
              /\ UNCHANGED <<store, ret>>
         ELSE IF timestamp \in fetch.existingTimestamps
         THEN \* "Skipping duplicate"
              /\ fetch' = NextMessage(fetch)
              /\ UNCHANGED <<store, ret>>
         ELSE IF download = "null"
         THEN /\ fetch' = NextMessage(fetch)
              /\ UNCHANGED <<store, ret>>
         ELSE IF download = "throws"
         THEN /\ fetch' = advanced
              /\ UNCHANGED <<store, ret>>
         ELSE LET ocrResult == FetchClassify(message.photo[1], fetch.config)
                  eventId   == generateEventId(FetchNow, FreshRandom(FetchNow))
              IN  /\ store' = SortByTimestamp(Append(loadEvents,
                                 FetchedEvent(eventId, timestamp, ocrResult)))
                  /\ fetch' = NextMessage(
                       [fetch EXCEPT !.existingTimestamps = AddTimestamp(@, timestamp),
                                     !.eventsAdded = @ + 1,
                                     !.offset = message.id])
                  /\ UNCHANGED ret
  /\ UNCHANGED <<images, chat, stepwise>>

InitFetch == Init

NextFetch ==
  \/ \E date \in MessageDates, photo \in MessagePhotos : postMessage(date, photo)
  \/ \E config \in Configs, range \in Ranges : runFetch(config, range[1], range[2])
  \/ fetchBatch
  \/ \E download \in Downloads : fetchMessage(download)

SpecFetch == InitFetch /\ [][NextFetch]_vars

\* the run of fetchHistory is one chain of awaits that nothing holds up: the
\* request for a batch is answered, and the loop body goes on to the next
\* message
SpecFetchFair ==
  /\ SpecFetch
  /\ WF_vars(fetchBatch)
  /\ WF_vars(\E download \in Downloads : fetchMessage(download))

(***************************************************************************)
(* The while loops of the period splitters, one pass at a time: the day    *)
(* split of splitPeriodAcrossDays and the loops over one period of         *)
(* calculateHourlyPresence and calculateMonthlyPresence.  The code is      *)
(* synchronous, so a loop that has started runs on until it leaves.        *)
(***************************************************************************)
Splitters == {"day", "hour", "month"}

\* the periods handed to a splitter: from one recorded instant to the same or
\* a later one, in each state
WalkPeriods ==
  { [start |-> span[1], end |-> span[2], state |-> state,
     durationHours |-> DiffMs(NewDate(span[2]), NewDate(span[1]))] :
      span \in {pair \in Timestamps \X Timestamps :
                  ~DateLT(NewDate(pair[2]), NewDate(pair[1]))},
      state \in {"inside", "outside", "unknown"} }

\* currentDate / currentTime before the first pass
WalkFrom(splitter, period) ==
  IF splitter = "day" THEN getStartOfDay(NewDate(period.start))
  ELSE NewDate(period.start)

\* the map before the first pass: empty for the day split, all hours of the
\* day or all months of the year at zero for the others
WalkMap(splitter) ==
  CASE splitter = "day"   -> EmptyMap
    [] splitter = "hour"  -> [h \in 0..23 |-> ZeroHours]
    [] splitter = "month" -> [m \in 1..12 |-> ZeroHours]

\* the map after one pass of the loop
WalkBody(run) ==
  LET startDate == NewDate(run.period.start)
      endDate   == NewDate(run.period.end)
  IN  CASE run.splitter = "day" ->
             SplitDaysBody(run.period, startDate, endDate, run.currentTime, run.map)
        [] run.splitter = "hour" ->
             HourBody(run.period, startDate, endDate, run.currentTime, run.map)
        [] run.splitter = "month" ->
             MonthBody(run.period, startDate, endDate, run.currentTime, run.map)

\* currentDate / currentTime after one pass of the loop
WalkNext(run) ==
  CASE run.splitter = "day"   -> NextDay(run.currentTime)
    [] run.splitter = "hour"  -> NextHour(run.currentTime)
    [] run.splitter = "month" -> NextMonth(run.currentTime)

\* a splitter is entered with a period
startWalk(splitter, period) ==
  /\ walk.pc # "while"
  /\ walk' = [pc |-> "while", splitter |-> splitter, period |-> period,
              currentTime |-> WalkFrom(splitter, period), map |-> WalkMap(splitter)]
  /\ UNCHANGED <<store, ret, images, telegram, handlers, scan>>

\* "while (currentTime < endDate)": one test of the condition, and the pass
\* through the body if it holds
walkStep ==
  /\ walk.pc = "while"
  /\ walk' = IF DateLT(walk.currentTime, NewDate(walk.period.end))
             THEN [walk EXCEPT !.map = WalkBody(walk), !.currentTime = WalkNext(walk)]
             ELSE [walk EXCEPT !.pc = "done"]
  /\ UNCHANGED <<store, ret, images, telegram, handlers, scan>>

InitWalk == Init

NextWalk ==
  \/ \E splitter \in Splitters, period \in WalkPeriods : startWalk(splitter, period)
  \/ walkStep

SpecWalk == InitWalk /\ [][NextWalk]_vars /\ WF_vars(walkStep)

(***************************************************************************)
(* The photo handlers of the bot, up to their awaits.  node-telegram-bot-  *)
(* api emits "photo" for every message without waiting for the promise of  *)
(* the listener of the message before, so a handler runs on while another  *)
(* waits: between the readFile of loadEvents and the writeFile of          *)
(* saveEvents of one call of addEvent, the other call may read and write.  *)
(***************************************************************************)
\* the events of the handlers that have received a photo
HandlerEvents == { handlers[h].event : h \in {k \in Handlers : handlers[k].pc # "idle"} }

\* bot.on("photo") up to "await addEvent(event)": the photo classified, the
\* image saved, the event made
photoReceived(h, config, now, random, imageBuffer) ==
  /\ handlers[h].pc \in {"idle", "done"}
  /\ Len(store) + Cardinality({k \in Handlers : handlers[k].pc \notin {"idle", "done"}})
       < MaxEvents
  /\ FreshId(generateEventId(now, random))
  /\ \A event \in HandlerEvents : event.id # generateEventId(now, random)
  /\ images' = saveImage(images, imageBuffer, generateEventId(now, random))
  /\ handlers' = [handlers EXCEPT ![h] =
                    [pc |-> "loadEvents",
                     event |-> PhotoEvent(config, now, random, imageBuffer)]]
  /\ UNCHANGED <<store, ret, telegram, walk, scan>>

\* addEvent: "const events = await loadEvents()", then push and sort
addEventLoad(h) ==
  /\ handlers[h].pc = "loadEvents"
  /\ handlers' = [handlers EXCEPT ![h] =
                    [pc |-> "saveEvents",
                     event |-> handlers[h].event,
                     events |-> SortByTimestamp(Append(loadEvents, handlers[h].event))]]
  /\ UNCHANGED <<store, ret, images, telegram, walk, scan>>

\* addEvent: "await saveEvents(events)", and the handler returns
addEventSave(h) ==
  /\ handlers[h].pc = "saveEvents"
  /\ store' = handlers[h].events
  /\ ret' = NoReturn
  /\ handlers' = [handlers EXCEPT ![h] = [pc |-> "done", event |-> handlers[h].event]]
  /\ UNCHANGED <<images, telegram, walk, scan>>

InitBot == Init

NextBot ==
  \/ \E h \in Handlers, config \in Configs, now \in PhotoTimes, random \in Randoms,
        photo \in Photos :
        photoReceived(h, config, now, random, photo)
  \/ \E h \in Handlers : addEventLoad(h)
  \/ \E h \in Handlers : addEventSave(h)

SpecBot == InitBot /\ [][NextBot]_vars

(***************************************************************************)
(* rescanImages between its loadEvents and its saveEvents, while the bot   *)
(* records photos.  The images of the loaded events are read as they are   *)
(* when the events are loaded: the bot only adds files, for new events.    *)
(***************************************************************************)
\* rescanImages up to the end of its for loop: the events loaded, classified
\* again and changed in memory
rescanLoad(config, from, to) ==
  LET startDate == parseDate(from)
      endDate   == setUTCHoursEndOfDay(parseDate(to))
  IN  /\ scan.pc = "idle"
      /\ images.exists
      /\ scan' = [pc     |-> "saveEvents",
                  loaded |-> loadEvents,
                  walked |-> RescanWalk(loadEvents, 1, images, config,
                                        startDate, endDate, 0, 0)]
      /\ UNCHANGED <<store, ret, images, telegram, walk, handlers>>

\* "if (updated > 0) { await saveEvents(events) }" and the return.  Recorded
\* with the returned count: saveEvents, the lists written, and onDisk, the
\* events file as it was when the run came to this point
rescanSave ==
  LET saves == SavesOf(scan.walked)
  IN  /\ scan.pc = "saveEvents"
      /\ store' = IF saves = <<>> THEN store ELSE saves[Len(saves)]
      /\ ret' = [op |-> "rescanImages", value |-> scan.walked.rescanned,
                 loaded |-> scan.loaded, saveEvents |-> saves, onDisk |-> store]
      /\ scan' = Idle
      /\ UNCHANGED <<images, telegram, walk, handlers>>

InitScan == Init

NextScan ==
  \/ \E config \in Configs, now \in PhotoTimes, random \in Randoms, photo \in Photos :
        onPhoto(config, now, random, photo)
  \/ \E config \in Configs, range \in Ranges : rescanLoad(config, range[1], range[2])
  \/ rescanSave

SpecScan == InitScan /\ [][NextScan]_vars

(***************************************************************************)
(* Properties of the report.  They speak of the report that the last call *)
(* returned and of the store it was computed from, which no step has      *)
(* changed since.                                                          *)
(***************************************************************************)
IsReport == ret.op = "generateReportData"

\* the sum of the numbers of a sequence
RECURSIVE SeqSum(_)
SeqSum(numbers) ==
  IF numbers = <<>> THEN 0 ELSE Head(numbers) + SeqSum(Tail(numbers))

\* the stored events whose instant lies in startDate..endDate, in stored order
InRange(startDate, endDate) ==
  SelectSeq(store, LAMBDA e : ~DateLT(NewDate(e.timestamp), startDate)
                              /\ ~DateLT(endDate, NewDate(e.timestamp)))

\* the stored events of the range whose direction is "in" or "out"
ValidInRange(startDate, endDate) ==
  SelectSeq(InRange(startDate, endDate), LAMBDA e : e.direction \in {"in", "out"})

\* the store is in non-decreasing timestamp order
StoreSorted ==
  \A i \in 1..(Len(store) - 1) :
     ~DateLT(NewDate(store[i + 1].timestamp), NewDate(store[i].timestamp))

\* hoursInside + hoursOutside + hoursUnknown of a row
RowHours(row) == row.hoursInside + row.hoursOutside + row.hoursUnknown

\* C1  Gap-fill totality: with the store in timestamp order and
\* startDate <= endDate, every row of dailyStats has
\* |hoursInside + hoursOutside + hoursUnknown - 24| <= 0.01.
C1_GapFillTotality ==
  (IsReport /\ StoreSorted /\ DateLE(ret.startDate, ret.endDate)) =>
    \A i \in 1..Len(ret.data.dailyStats) :
       LET sum == RowHours(ret.data.dailyStats[i])
       IN  /\ sum - Hours24 <= GapThreshold
           /\ Hours24 - sum <= GapThreshold

\* C1 witness: a report with a day that the periods cover but for ten seconds,
\* which is left unfilled, next to a day filled up with unknown time.
C1_Witness ==
  /\ IsReport /\ StoreSorted /\ DateLE(ret.startDate, ret.endDate)
  /\ \E i \in 1..Len(ret.data.dailyStats) :
        /\ RowHours(ret.data.dailyStats[i]) = Hours24 - 10 * 1000
        /\ ret.data.dailyStats[i].hoursInside = Hours24 - 10 * 1000
  /\ \E i \in 1..Len(ret.data.dailyStats) :
        /\ RowHours(ret.data.dailyStats[i]) = Hours24
        /\ ret.data.dailyStats[i].hoursUnknown = Hours24

\* C2  Reconciliation: the three totals of the report are the sums of the
\* hoursInside, hoursOutside and hoursUnknown columns of dailyStats.
C2_Reconciliation ==
  IsReport =>
    LET rows == ret.data.dailyStats
    IN  /\ ret.data.totalTimeInside = SeqSum([i \in 1..Len(rows) |-> rows[i].hoursInside])
        /\ ret.data.totalTimeOutside = SeqSum([i \in 1..Len(rows) |-> rows[i].hoursOutside])
        /\ ret.data.totalTimeUnknown = SeqSum([i \in 1..Len(rows) |-> rows[i].hoursUnknown])

\* C2 witness: a report with periods whose total unknown time is the gap-filled
\* one of the daily table, more than the unknown time of its periods.
C2_Witness ==
  /\ IsReport
  /\ Len(ret.data.periods) > 0
  /\ ret.data.totalTimeInside > 0
  /\ ret.data.totalTimeUnknown > calculateTotalTimeByState(ret.data.periods).unknown

\* the events of the example sequences of the period rules
ExampleEvent(timestamp, direction) ==
  [timestamp |-> timestamp, direction |-> direction, prey |-> FALSE]

\* the states of a period list, in order
StatesOf(periods) == [i \in 1..Len(periods) |-> periods[i].state]

\* C3  Period state rule: the period between consecutive valid events a, b is
\* "inside" iff a is in and b is out, "outside" iff a is out and b is in, and
\* "unknown" otherwise; [in@T1, out@T2, in@T3] gives (T1,T2,inside),
\* (T2,T3,outside) and [in@T1, in@T2] gives (T1,T2,unknown).
C3_PeriodStateRule ==
  /\ IsReport =>
       LET valid   == ValidInRange(ret.startDate, ret.endDate)
           periods == ret.data.periods
       IN  \A i \in 1..Len(periods) :
              /\ i < Len(valid)
              /\ periods[i].state = "inside" <=>
                   (valid[i].direction = "in" /\ valid[i + 1].direction = "out")
              /\ periods[i].state = "outside" <=>
                   (valid[i].direction = "out" /\ valid[i + 1].direction = "in")
              /\ periods[i].state = "unknown" <=>
                   (valid[i].direction = valid[i + 1].direction)
  /\ \A t1, t2, t3 \in Timestamps :
       /\ LET periods == calculatePresencePeriods(
                           <<ExampleEvent(t1, "in"), ExampleEvent(t2, "out"),
                             ExampleEvent(t3, "in")>>)
          IN  /\ StatesOf(periods) = <<"inside", "outside">>
              /\ <<periods[1].start, periods[1].end>> = <<t1, t2>>
              /\ <<periods[2].start, periods[2].end>> = <<t2, t3>>
       /\ LET periods == calculatePresencePeriods(
                           <<ExampleEvent(t1, "in"), ExampleEvent(t2, "in")>>)
          IN  /\ StatesOf(periods) = <<"unknown">>
              /\ <<periods[1].start, periods[1].end>> = <<t1, t2>>

\* C3 witness: the report of a range holding in, out, in at three instants,
\* with the periods inside and outside.
C3_Witness ==
  /\ IsReport
  /\ LET valid == ValidInRange(ret.startDate, ret.endDate)
     IN  /\ [i \in 1..Len(valid) |-> valid[i].direction] = <<"in", "out", "in">>
         /\ valid[1].timestamp # valid[2].timestamp
         /\ valid[2].timestamp # valid[3].timestamp
  /\ StatesOf(ret.data.periods) = <<"inside", "outside">>

\* C4  Period count and bounds: a range holding N valid events yields
\* max(N - 1, 0) periods, period i running from valid event i to valid event
\* i + 1; invalid events between valid ones start, end and split no period.
C4_PeriodCountAndBounds ==
  IsReport =>
    LET valid   == ValidInRange(ret.startDate, ret.endDate)
        periods == ret.data.periods
    IN  /\ Len(periods) = (IF Len(valid) = 0 THEN 0 ELSE Len(valid) - 1)
        /\ \A i \in 1..Len(periods) :
              /\ periods[i].start = valid[i].timestamp
              /\ periods[i].end = valid[i + 1].timestamp

\* C4 witness: the report of a range holding a valid event, a later invalid
\* one and a still later valid one, with the one period between the valid two.
C4_Witness ==
  /\ IsReport
  /\ LET all == InRange(ret.startDate, ret.endDate)
     IN  /\ Len(all) = 3
         /\ all[1].direction # "invalid"
         /\ all[2].direction = "invalid"
         /\ all[3].direction # "invalid"
         /\ DateLT(NewDate(all[1].timestamp), NewDate(all[2].timestamp))
         /\ DateLT(NewDate(all[2].timestamp), NewDate(all[3].timestamp))
         /\ Len(ret.data.periods) = 1
         /\ ret.data.periods[1].start = all[1].timestamp
         /\ ret.data.periods[1].end = all[3].timestamp

\* C4 witness of the ranges without a period: a report over a single valid
\* event has no period.
C4_WitnessOneEvent ==
  /\ IsReport
  /\ Len(ValidInRange(ret.startDate, ret.endDate)) = 1
  /\ ret.data.periods = <<>>

\* the number of events of a sequence that satisfy P
CountOf(events, P(_)) == Cardinality({k \in 1..Len(events) : P(events[k])})

\* the day number of the local (UTC+1) calendar day of an instant
LocalDay(date) ==
  IF date[2] + TIMEZONE_OFFSET_MS >= MsPerDay THEN date[1] + 1 ELSE date[1]

\* the hour of day, 0..23, that the local (UTC+1) clock shows at an instant
LocalHour(date) == ((date[2] + TIMEZONE_OFFSET_MS) % MsPerDay) \div MsPerHour

\* the "YYYY-MM" of the local (UTC+1) calendar day of an instant
LocalMonth(date) ==
  LET civil == CivilFromDays(LocalDay(date)) IN <<civil[1], civil[2]>>

\* C5  Entry/exit counts exclude invalid events: totalEntries is the number of
\* "in" events of the range and totalExits the number of "out" events, and
\* every entries/exits cell of the daily, hourly-distribution and
\* monthly-activity tables counts the "in"/"out" events of its bucket, an
\* "invalid" event adding to none of them.
C5_CountsExcludeInvalid ==
  IsReport =>
    LET all == InRange(ret.startDate, ret.endDate)
        In(e)  == e.direction = "in"
        Out(e) == e.direction = "out"
    IN  /\ ret.data.totalEntries = CountOf(all, In)
        /\ ret.data.totalExits = CountOf(all, Out)
        /\ \A i \in 1..Len(ret.data.dailyStats) :
              LET row == ret.data.dailyStats[i]
                  OfDay(e) == CivilFromDays(LocalDay(NewDate(e.timestamp))) = row.date
              IN  /\ row.entries = CountOf(all, LAMBDA e : In(e) /\ OfDay(e))
                  /\ row.exits = CountOf(all, LAMBDA e : Out(e) /\ OfDay(e))
        /\ \A i \in 1..Len(ret.data.hourlyDistribution) :
              LET row == ret.data.hourlyDistribution[i]
                  OfHour(e) == LocalHour(NewDate(e.timestamp)) = row.hour
              IN  /\ row.entries = CountOf(all, LAMBDA e : In(e) /\ OfHour(e))
                  /\ row.exits = CountOf(all, LAMBDA e : Out(e) /\ OfHour(e))
        /\ \A i \in 1..Len(ret.data.monthlyActivity) :
              LET row == ret.data.monthlyActivity[i]
                  OfMonth(e) == LocalMonth(NewDate(e.timestamp)) = row.month
              IN  /\ row.entries = CountOf(all, LAMBDA e : In(e) /\ OfMonth(e))
                  /\ row.exits = CountOf(all, LAMBDA e : Out(e) /\ OfMonth(e))

\* C5 witness: the report of a range holding an invalid event besides an entry
\* and an exit, with one entry and one exit in total.
C5_Witness ==
  /\ IsReport
  /\ LET all == InRange(ret.startDate, ret.endDate)
     IN  /\ \E k \in 1..Len(all) : all[k].direction = "invalid"
         /\ \E k \in 1..Len(all) : all[k].direction = "in"
         /\ \E k \in 1..Len(all) : all[k].direction = "out"
  /\ ret.data.totalEntries = 1
  /\ ret.data.totalExits = 1

\* C6  Prey count covers all events: the preyCount of every month of
\* monthlyPreyCount is the number of events of the range, of any direction,
\* with the prey flag set and the UTC+1 timestamp in that month; the counts
\* add up to the number of prey-flagged events of the range.
C6_PreyCountAllEvents ==
  IsReport =>
    LET all  == InRange(ret.startDate, ret.endDate)
        rows == ret.data.monthlyPreyCount
    IN  /\ \A i \in 1..Len(rows) :
              rows[i].preyCount =
                CountOf(all, LAMBDA e : e.prey
                                        /\ LocalMonth(NewDate(e.timestamp)) = rows[i].month)
        /\ \A i, j \in 1..Len(rows) : rows[i].month = rows[j].month => i = j
        /\ SeqSum([i \in 1..Len(rows) |-> rows[i].preyCount])
             = CountOf(all, LAMBDA e : e.prey)

\* C6 witness: a report whose prey count of 2025-01 is 2, from an invalid
\* event and an entry that both carry the flag, the invalid one at 23:30 UTC
\* of 2024-12-31.
C6_Witness ==
  /\ IsReport
  /\ \E k \in 1..Len(store) :
        /\ store[k].direction = "invalid" /\ store[k].prey
        /\ store[k].timestamp = Iso(2024, 12, 31, 23, 30, 0)
  /\ \E k \in 1..Len(store) : store[k].direction = "in" /\ store[k].prey
  /\ \E i \in 1..Len(ret.data.monthlyPreyCount) :
        /\ ret.data.monthlyPreyCount[i].month = <<2025, 1>>
        /\ ret.data.monthlyPreyCount[i].preyCount = 2

\* C7  Bucket completeness: for any event list the report has a daily row for
\* every calendar day (UTC+1) from startDate to endDate, the 24 rows
\* hour = 0..23 in hourlyDistribution and in hourlyPresence, and the 12 rows
\* month = 1..12 in monthlyPresence, contribution or not.
C7_BucketCompleteness ==
  (IsReport /\ DateLE(ret.startDate, ret.endDate)) =>
    LET daily == ret.data.dailyStats
    IN  /\ \A n \in LocalDay(ret.startDate)..LocalDay(ret.endDate) :
              \E i \in 1..Len(daily) : daily[i].date = CivilFromDays(n)
        /\ \A n \in ret.startDate[1]..ret.endDate[1] :
              \E i \in 1..Len(daily) : daily[i].date = CivilFromDays(n)
        /\ \A i, j \in 1..Len(daily) : daily[i].date = daily[j].date => i = j
        /\ [i \in 1..Len(ret.data.hourlyDistribution) |->
              ret.data.hourlyDistribution[i].hour] = [i \in 1..24 |-> i - 1]
        /\ [i \in 1..Len(ret.data.hourlyPresence) |->
              ret.data.hourlyPresence[i].hour] = [i \in 1..24 |-> i - 1]
        /\ [i \in 1..Len(ret.data.monthlyPresence) |->
              ret.data.monthlyPresence[i].month] = [i \in 1..12 |-> i]

\* C7 witness: the report of an empty store over 2024-12-31..2025-01-02, whose
\* tables have all their rows, and every hour and month row at zero.
C7_Witness ==
  /\ IsReport
  /\ store = <<>>
  /\ ret.startDate[1] < ret.endDate[1]
  /\ Len(ret.data.dailyStats) >= 3
  /\ Len(ret.data.hourlyPresence) = 24
  /\ \A i \in 1..Len(ret.data.hourlyPresence) : RowHours(ret.data.hourlyPresence[i]) = 0
  /\ Len(ret.data.monthlyPresence) = 12
  /\ \A i \in 1..Len(ret.data.monthlyPresence) : RowHours(ret.data.monthlyPresence[i]) = 0

\* C8  Empty range totals, as claimed: a report over a range without events
\* has totalTimeInside = 0, totalTimeOutside = 0 and totalTimeUnknown = 24 x D,
\* D the number of calendar days from startDate to endDate inclusive.
C8_EmptyRangeTotals ==
  (IsReport /\ InRange(ret.startDate, ret.endDate) = <<>>) =>
    /\ ret.data.totalTimeInside = 0
    /\ ret.data.totalTimeOutside = 0
    /\ ret.data.totalTimeUnknown = Hours24 * (ret.endDate[1] - ret.startDate[1] + 1)

\* the milliseconds that the period from instant s to instant e >= s shares
\* with the local (UTC+1) calendar day of day number n
DayOverlap(s, e, n) ==
  LET At(date) == (date[1] - s[1]) * MsPerDay + date[2]
      dayStart == (n - s[1]) * MsPerDay - TIMEZONE_OFFSET_MS
      dayEnd   == dayStart + MsPerDay
      from     == IF At(s) > dayStart THEN At(s) ELSE dayStart
      to       == IF At(e) < dayEnd THEN At(e) ELSE dayEnd
  IN  IF to > from THEN to - from ELSE 0

\* splitPeriodAcrossDays(period) holds, for every day, the overlap and nothing else
SplitIsOverlap(period) ==
  LET s     == NewDate(period.start)
      e     == NewDate(period.end)
      split == splitPeriodAcrossDays(period)
      days  == (s[1] - 1)..(e[1] + 2)
  IN  /\ DOMAIN split \subseteq {CivilFromDays(n) : n \in days}
      /\ \A n \in days :
            IF DayOverlap(s, e, n) > 0
            THEN /\ CivilFromDays(n) \in DOMAIN split
                 /\ split[CivilFromDays(n)].hours = DayOverlap(s, e, n)
                 /\ split[CivilFromDays(n)].state = period.state
            ELSE CivilFromDays(n) \notin DOMAIN split

\* C9  Day split in the fixed local offset: for every period [s, e], s <= e,
\* splitPeriodAcrossDays gives each day key exactly the hours that [s, e)
\* shares with that day of local time UTC + 1h, and no key to a day it does
\* not touch; 2025-01-01T23:00:00Z to 2025-01-02T02:00:00Z gives only
\* 2025-01-02, with 3.0h.
C9_DaySplitLocalOffset ==
  /\ IsReport =>
       \A i \in 1..Len(ret.data.periods) :
          ~DateLT(NewDate(ret.data.periods[i].end), NewDate(ret.data.periods[i].start))
            => SplitIsOverlap(ret.data.periods[i])
  /\ LET split == splitPeriodAcrossDays(
                    [start |-> Iso(2025, 1, 1, 23, 0, 0), end |-> Iso(2025, 1, 2, 2, 0, 0),
                     state |-> "inside", durationHours |-> 3 * MsPerHour])
     IN  /\ DOMAIN split = {<<2025, 1, 2>>}
         /\ split[<<2025, 1, 2>>].hours = 3 * MsPerHour

\* C9 witness: a report with a period that starts before a local midnight and
\* ends after the next one, split over three days, the middle one in full.
C9_Witness ==
  /\ IsReport
  /\ \E i \in 1..Len(ret.data.periods) :
        LET split == splitPeriodAcrossDays(ret.data.periods[i])
        IN  /\ Cardinality(DOMAIN split) = 3
            /\ \E key \in DOMAIN split : split[key].hours = Hours24
            /\ \E key \in DOMAIN split : split[key].hours = MsPerHour \div 2

\* C10  Monthly-time-series reconciliation: every row of monthlyTimeSeries
\* holds the sums of the three hour fields over the dailyStats rows whose date
\* starts with its month, and every dailyStats row falls in exactly one row.
C10_MonthlyTimeSeries ==
  IsReport =>
    LET rows  == ret.data.monthlyTimeSeries
        daily == ret.data.dailyStats
        OfMonth(month) == SelectSeq(daily, LAMBDA day : <<day.date[1], day.date[2]>> = month)
    IN  /\ \A i \in 1..Len(rows) :
              LET days == OfMonth(rows[i].month)
              IN  /\ rows[i].hoursInside = SeqSum([k \in 1..Len(days) |-> days[k].hoursInside])
                  /\ rows[i].hoursOutside = SeqSum([k \in 1..Len(days) |-> days[k].hoursOutside])
                  /\ rows[i].hoursUnknown = SeqSum([k \in 1..Len(days) |-> days[k].hoursUnknown])
        /\ \A k \in 1..Len(daily) :
              Cardinality({i \in 1..Len(rows) :
                             rows[i].month = <<daily[k].date[1], daily[k].date[2]>>}) = 1

\* C10 witness: a report over the turn of the year whose series has the rows
\* 2024-12 and 2025-01, each with time inside and with gap-filled unknown time.
C10_Witness ==
  /\ IsReport
  /\ Len(ret.data.monthlyTimeSeries) = 2
  /\ ret.data.monthlyTimeSeries[1].month = <<2024, 12>>
  /\ ret.data.monthlyTimeSeries[2].month = <<2025, 1>>
  /\ \A i \in 1..2 : /\ ret.data.monthlyTimeSeries[i].hoursInside > 0
                     /\ ret.data.monthlyTimeSeries[i].hoursUnknown > 0

\* the sum of field over the rows of a table
SumOf(rows, field) == SeqSum([i \in 1..Len(rows) |-> rows[i][field]])

\* C11  Count consistency across views: in every report the entries of the
\* rows of dailyStats, of hourlyDistribution and of monthlyActivity each add
\* up to totalEntries, and their exits to totalExits, which are the numbers of
\* "in" and "out" events of the range: every valid event is counted in
\* exactly one day row, one hour row and one month row.
C11_CountConsistency ==
  IsReport =>
    LET valid == ValidInRange(ret.startDate, ret.endDate)
    IN  /\ ret.data.totalEntries = CountOf(valid, LAMBDA e : e.direction = "in")
        /\ ret.data.totalExits = CountOf(valid, LAMBDA e : e.direction = "out")
        /\ SumOf(ret.data.dailyStats, "entries") = ret.data.totalEntries
        /\ SumOf(ret.data.hourlyDistribution, "entries") = ret.data.totalEntries
        /\ SumOf(ret.data.monthlyActivity, "entries") = ret.data.totalEntries
        /\ SumOf(ret.data.dailyStats, "exits") = ret.data.totalExits
        /\ SumOf(ret.data.hourlyDistribution, "exits") = ret.data.totalExits
        /\ SumOf(ret.data.monthlyActivity, "exits") = ret.data.totalExits

\* C11 witness: a report with two entries and an exit that fall into two
\* months, the month rows of 2024-12 and 2025-01 both counting an event.
C11_Witness ==
  /\ IsReport
  /\ ret.data.totalEntries = 2
  /\ ret.data.totalExits = 1
  /\ \E i, j \in 1..Len(ret.data.monthlyActivity) :
        /\ ret.data.monthlyActivity[i].month = <<2024, 12>>
        /\ ret.data.monthlyActivity[j].month = <<2025, 1>>
        /\ ret.data.monthlyActivity[i].entries + ret.data.monthlyActivity[i].exits > 0
        /\ ret.data.monthlyActivity[j].entries + ret.data.monthlyActivity[j].exits > 0

\* a step that adds one event puts it behind every stored event that is not
\* later than it and in front of every stored event that is later
AddKeepsTies ==
  Len(store') = Len(store) + 1 =>
    \E p \in 1..Len(store') :
       /\ store = SubSeq(store', 1, p - 1) \o SubSeq(store', p + 1, Len(store'))
       /\ \A i \in 1..(p - 1) :
             ~DateLT(NewDate(store'[p].timestamp), NewDate(store'[i].timestamp))
       /\ \A i \in (p + 1)..Len(store') :
             DateLT(NewDate(store'[p].timestamp), NewDate(store'[i].timestamp))

\* the events a report was computed from are the stored events of its range,
\* both ends included, in stored order
ReportEventsAreRange ==
  IsReport =>
    LET inside == {k \in 1..Len(store) :
                     /\ DateLE(ret.startDate, NewDate(store[k].timestamp))
                     /\ DateLE(NewDate(store[k].timestamp), ret.endDate)}
    IN  /\ Len(ret.data.events) = Cardinality(inside)
        /\ \A i \in 1..Len(ret.data.events) :
              \E k \in inside :
                 /\ Cardinality({j \in inside : j < k}) = i - 1
                 /\ ret.data.events[i] = store[k]

\* C17  Sorted store: from the empty store on, after every addEvent the store
\* is in non-decreasing timestamp order and the added event stands behind the
\* stored events of the same timestamp (ties keep insertion order);
\* getEventsByDateRange returns exactly the stored events with
\* startDate <= timestamp <= endDate, in stored order.
C17_SortedStore ==
  /\ [](StoreSorted /\ ReportEventsAreRange)
  /\ [][AddKeepsTies]_vars

\* C17 witness: a store of three events, two of them at the same instant with
\* different directions, and a report whose range holds some but not all of
\* the stored events.
C17_Witness ==
  /\ IsReport
  /\ Len(store) = 3
  /\ \E i \in 1..2 : /\ store[i].timestamp = store[i + 1].timestamp
                     /\ store[i].direction # store[i + 1].direction
  /\ Len(ret.data.events) \in 1..2

\* the length of the part of [s, e) that lies in the local (UTC+1) clock hour
\* h of the day with number n, s and e instants
ClockHourOverlap(s, e, n, h) ==
  LET hourStart == AddMs(<<n, 0>>, h * MsPerHour - TIMEZONE_OFFSET_MS)
      hourEnd   == AddMs(hourStart, MsPerHour)
      from      == IF DateLT(hourStart, s) THEN s ELSE hourStart
      to        == IF DateLT(e, hourEnd) THEN e ELSE hourEnd
  IN  IF DateLT(from, to) THEN DiffMs(to, from) ELSE 0

\* the time of the periods in state that lies in the local clock hour h of
\* any day
ClockHourTotal(periods, state, h) ==
  SeqSum([i \in 1..Len(periods) |->
            IF periods[i].state # state THEN 0
            ELSE LET s == NewDate(periods[i].start)
                     e == NewDate(periods[i].end)
                     days == [k \in 1..(LocalDay(e) - LocalDay(s) + 1) |->
                                ClockHourOverlap(s, e, LocalDay(s) + k - 1, h)]
                 IN  SeqSum(days)])

\* C20  Hour-of-day split aligned to clock hours, as claimed: every row h of
\* hourlyPresence holds, per state, the total overlap of the periods of that
\* state with the local clock-hour intervals [h:00, h+1:00).
C20_ClockAlignedHours ==
  IsReport =>
    \A i \in 1..Len(ret.data.hourlyPresence) :
       LET row == ret.data.hourlyPresence[i]
       IN  /\ row.hoursInside = ClockHourTotal(ret.data.periods, "inside", row.hour)
           /\ row.hoursOutside = ClockHourTotal(ret.data.periods, "outside", row.hour)
           /\ row.hoursUnknown = ClockHourTotal(ret.data.periods, "unknown", row.hour)

\* the last call ended with an error thrown to its caller
Threw == "error" \in DOMAIN ret

\* C16  Unparsable timestamps surface, as claimed: a report over a store that
\* holds an event whose timestamp does not parse as a date fails with an
\* error visible to the caller.
C16_UnparsableSurfaces ==
  (IsReport /\ \E k \in 1..Len(store) : ~IsIsoTimestamp(store[k].timestamp))
    => Threw

(***************************************************************************)
(* Properties of the rescan.  An action property speaks of one step of     *)
(* rescanImages: store is the events file before the run, store' after.   *)
(***************************************************************************)
\* the last call was rescanImages and it returned
IsRescan == ret.op = "rescanImages" /\ ~Threw

\* the step is a run of rescanImages that returns
RescanReturns == ret'.op = "rescanImages" /\ "error" \notin DOMAIN ret'

\* event lies in the range of the run, names an image file and the file exists
HasImage(event, dir, startDate, endDate) ==
  /\ DateLE(startDate, NewDate(event.timestamp))
  /\ DateLE(NewDate(event.timestamp), endDate)
  /\ "imageFile" \in DOMAIN event
  /\ event.imageFile \in DOMAIN dir.files

\* the image of event can be read and classified
Readable(event, dir, startDate, endDate) ==
  HasImage(event, dir, startDate, endDate) /\ dir.files[event.imageFile].readable

\* the fresh classification of the image of event
Fresh(event, dir, config) == Classify(dir.files[event.imageFile].buffer, config)

\* the direction or the prey flag of event differs from classification
Differs(event, classification) ==
  \/ event.direction # classification.direction
  \/ "prey" \notin DOMAIN event
  \/ event.prey # classification.prey

\* C12  Rescan idempotence: a run of rescanImages that directly follows a run
\* with the same configuration and range, nothing written in between,
\* changes no field of any stored event and does not call saveEvents, also
\* when the first run gave events their prey flag.
C12_RescanIdempotent ==
  [][ ( /\ ret.op = "rescanImages"
        /\ ret'.op = "rescanImages"
        /\ ret'.config = ret.config
        /\ ret'.startDate = ret.startDate
        /\ ret'.endDate = ret.endDate )
      => ( /\ store' = store
           /\ "error" \notin DOMAIN ret' => ret'.saveEvents = <<>> ) ]_vars

\* C12 witness: the second of two equal runs, which re-classified an event and
\* saved nothing, after a first run that saved and gave an event with an
\* image and without a prey flag its flag.
C12_Witness ==
  /\ IsRescan
  /\ Len(ret.previous) = 1
  /\ ret.previous[1].saveEvents # <<>>
  /\ ret.saveEvents = <<>>
  /\ ret.value >= 1
  /\ \E k \in 1..Len(store) :
        /\ "imageFile" \in DOMAIN ret.previous[1].loaded[k]
        /\ "prey" \notin DOMAIN ret.previous[1].loaded[k]
        /\ "prey" \in DOMAIN store[k]

\* C13  Rescan preserves identity and order: a run of rescanImages leaves the
\* stored list at its length and every event at its index with its id, its
\* timestamp and its imageFile; only direction, confidence, prey and rawText
\* of an event may differ.
C13_RescanFrame ==
  [][ ret'.op = "rescanImages" =>
        /\ Len(store') = Len(store)
        /\ \A k \in 1..Len(store) :
              /\ store'[k].id = store[k].id
              /\ store'[k].timestamp = store[k].timestamp
              /\ "imageFile" \in DOMAIN store'[k] <=> "imageFile" \in DOMAIN store[k]
              /\ DOMAIN store'[k] \subseteq
                   DOMAIN store[k] \cup {"direction", "confidence", "prey", "rawText"}
              /\ \A f \in DOMAIN store[k] \ {"direction", "confidence", "prey", "rawText"} :
                    f \in DOMAIN store'[k] /\ store'[k][f] = store[k][f] ]_vars

\* C13 witness: a run over two stored events that changed the second and
\* left the first, both still at their index with their id.
C13_Witness ==
  /\ IsRescan
  /\ Len(store) = 2
  /\ ret.saveEvents # <<>>
  /\ ret.loaded[1] = store[1]
  /\ ret.loaded[2] # store[2]
  /\ ret.loaded[2].id = store[2].id
  /\ ret.loaded[2].imageFile = store[2].imageFile

\* C14  Rescan persists only on change: a run calls saveEvents at most once,
\* with the list as it is after all events were processed, and calls it if
\* and only if the direction or the prey flag of some re-classified event
\* differed from its fresh classification; otherwise the store is not
\* written.
C14_SaveOnlyOnChange ==
  [][ RescanReturns =>
        LET fresh(k)   == Fresh(store[k], images, ret'.config)
            readable   == {k \in 1..Len(store) :
                             Readable(store[k], images, ret'.startDate, ret'.endDate)}
            changed    == {k \in readable : Differs(store[k], fresh(k))}
        IN  /\ Len(ret'.saveEvents) <= 1
            /\ ret'.saveEvents # <<>> <=> changed # {}
            /\ ret'.saveEvents # <<>> =>
                  /\ ret'.saveEvents[1] = store'
                  /\ \A k \in readable : ~Differs(store'[k], fresh(k))
            /\ ret'.saveEvents = <<>> => store' = store ]_vars

\* C14 witness: a run that re-classified two events, changed one of them and
\* saved once.
C14_Witness ==
  /\ IsRescan
  /\ ret.value = 2
  /\ Len(ret.saveEvents) = 1
  /\ ret.loaded[1] = store[1]
  /\ ret.loaded[2] # store[2]

\* a run that re-classified an event, found nothing to change and did not save
C14_WitnessNoSave ==
  /\ IsRescan
  /\ ret.value >= 1
  /\ ret.saveEvents = <<>>
  /\ Len(ret.previous) = 0

\* the numbers that the result of the last call carries: the result of
\* rescanImages is a single number
ReturnedNumbers == {ret.value}

\* C15  Rescan reports both counts, as claimed: the result that rescanImages
\* returns carries the number of events re-classified and the number of
\* events changed.
C15_ReturnsBothCounts ==
  IsRescan =>
    LET considered == Cardinality({k \in 1..Len(ret.loaded) :
                         Readable(ret.loaded[k], images, ret.startDate, ret.endDate)})
        changed    == Cardinality({k \in 1..Len(ret.loaded) : ret.loaded[k] # store[k]})
    IN  /\ considered \in ReturnedNumbers
        /\ changed \in ReturnedNumbers

\* C18  Rescan error isolation: when the image of an event cannot be read or
\* classified, the run leaves that event as it was, does not count it, still
\* re-classifies every later event and returns without throwing.
C18_ErrorIsolation ==
  [][ (ret'.op = "rescanImages" /\ images.exists) =>
        LET startDate == ret'.startDate
            endDate   == ret'.endDate
            failing   == {k \in 1..Len(store) :
                            /\ HasImage(store[k], images, startDate, endDate)
                            /\ ~Readable(store[k], images, startDate, endDate)}
            readable  == {k \in 1..Len(store) :
                            Readable(store[k], images, startDate, endDate)}
        IN  /\ "error" \notin DOMAIN ret'
            /\ \A k \in failing : store'[k] = store[k]
            /\ ret'.value = Cardinality(readable)
            /\ \A k \in readable :
                  ~Differs(store'[k], Fresh(store[k], images, ret'.config)) ]_vars

\* C18 witness: a run over two events of its range, the first with an image
\* that cannot be read, which was left alone, the second re-classified and
\* changed.
C18_Witness ==
  /\ IsRescan
  /\ Len(store) = 2
  /\ HasImage(store[1], images, ret.startDate, ret.endDate)
  /\ ~images.files[store[1].imageFile].readable
  /\ ret.value = 1
  /\ ret.loaded[1] = store[1]
  /\ ret.loaded[2] # store[2]

(***************************************************************************)
(* Properties of the fetch.                                                *)
(***************************************************************************)
\* C19  Fetch deduplication: fetchHistory adds no event whose timestamp is
\* that of an event in the store when the run started or of an event added
\* earlier in the run, so that the fetched events of the store never hold two
\* of the same timestamp.
C19_FetchDeduplicates ==
  /\ \A i, j \in 1..Len(store) : store[i].timestamp = store[j].timestamp => i = j
  /\ fetch.pc # "idle" =>
        \A k \in 1..Len(store) : store[k].timestamp \in fetch.existingTimestamps

\* C19 witness: a returned run, with two photos of the same second in the
\* group and one stored event for them.
C19_Witness ==
  /\ ret.op = "fetchHistory"
  /\ fetch.pc = "idle"
  /\ \E i, j \in 1..Len(chat) :
        /\ i < j
        /\ chat[i].date = chat[j].date
        /\ chat[i].photo # <<>>
        /\ chat[j].photo # <<>>
        /\ Cardinality({k \in 1..Len(store) :
              store[k].timestamp = toISOString(DateOfSeconds(chat[i].date))}) = 1

\* the hours that splitPeriodAcrossDays gives the day `date` over the periods
\* of one state
SplitContribution(periods, state, date) ==
  Reduce(LAMBDA period :
           LET split == splitPeriodAcrossDays(period)
           IN  IF period.state = state /\ date \in DOMAIN split
               THEN split[date].hours ELSE 0,
         periods, 1)

\* C21  Gap filling touches unknown time only: in every row of dailyStats,
\* hoursInside and hoursOutside are the sums of what splitPeriodAcrossDays
\* gives that day over the inside and the outside periods, so that, the events
\* being in timestamp order, totalTimeInside and totalTimeOutside are the
\* summed durationHours of the inside and of the outside periods.
C21_GapFillFrame ==
  (IsReport /\ StoreSorted) =>
    LET rows    == ret.data.dailyStats
        periods == ret.data.periods
    IN  /\ \A i \in 1..Len(rows) :
              /\ rows[i].hoursInside = SplitContribution(periods, "inside", rows[i].date)
              /\ rows[i].hoursOutside = SplitContribution(periods, "outside", rows[i].date)
        /\ ret.data.totalTimeInside = calculateTotalTimeByState(periods).inside
        /\ ret.data.totalTimeOutside = calculateTotalTimeByState(periods).outside

\* C21 witness: a report with time inside and time outside, and a day that has
\* some of it and was filled up with unknown time.
C21_Witness ==
  /\ IsReport /\ StoreSorted
  /\ ret.data.totalTimeInside > 0
  /\ ret.data.totalTimeOutside > 0
  /\ \E i \in 1..Len(ret.data.dailyStats) :
        LET row == ret.data.dailyStats[i]
        IN  /\ row.hoursInside + row.hoursOutside > 0
            /\ row.hoursUnknown > 0
            /\ SplitContribution(ret.data.periods, "unknown", row.date) = 0

\* the loop in progress has left, over a period that ends when it starts
ZeroLengthDone ==
  /\ walk.pc = "done"
  /\ walk.period.start = walk.period.end

\* C22  The splitters terminate: the day, hour-of-day and month loops, entered
\* with a period whose start is not after its end, move their current instant
\* strictly forward in every pass and leave after finitely many passes; a
\* period with start = end adds no hours to any bucket.
C22_SplittersTerminate ==
  /\ [](ZeroLengthDone => walk.map = WalkMap(walk.splitter))
  /\ [][(walk.pc = "while" /\ walk'.pc = "while")
          => DateLT(walk.currentTime, walk'.currentTime)]_vars
  /\ (walk.pc = "while" ~> walk.pc = "done")

\* C22 witness: the month loop has left after a pass through December and a
\* pass through January.
C22_Witness ==
  /\ walk.pc = "done"
  /\ walk.splitter = "month"
  /\ walk.map[12].hoursInside > 0
  /\ walk.map[1].hoursInside > 0

\* a loop has left over a period of length zero that does not start at a
\* local midnight, after the one pass of the day split that adds nothing
C22_WitnessZeroLength ==
  /\ ZeroLengthDone
  /\ walk.splitter = "day"
  /\ DateLT(getStartOfDay(NewDate(walk.period.start)), NewDate(walk.period.start))

\* the stored event list holds an event with the id of this one
Stored(event) == \E k \in 1..Len(store) : store[k].id = event.id

\* C23  No lost event under concurrent ingestion: when both photo handlers
\* have run addEvent to its end, their load, sort and save steps interleaved
\* in any way, the stored event list holds the events of both.
C23_NoLostEvent ==
  (\A h \in Handlers : handlers[h].pc = "done") =>
     \A h \in Handlers : Stored(handlers[h].event)

\* C24  Rescan does not drop concurrently recorded events: every event that
\* was in the events file when rescanImages, having loaded the events before,
\* came to save its changes is in the events file after the run.
C24_RescanKeepsNewEvents ==
  (ret.op = "rescanImages" /\ "onDisk" \in DOMAIN ret /\ ret.saveEvents # <<>>) =>
     \A k \in 1..Len(ret.onDisk) : Stored(ret.onDisk[k])

\* C25  History fetch terminates: whatever the messages of the group and the
\* date range, a run of fetchHistory that has started returns, also when all
\* messages of a batch are newer than endDate, have a timestamp that is
\* already stored, or cannot be downloaded.
C25_FetchTerminates == (fetch.pc # "idle") ~> (fetch.pc = "idle")

\* C26  Periods tile the observed span: with the events in timestamp order,
\* each period ends where the next one starts, no period ends before it
\* starts or has a negative durationHours, the first period starts at the
\* first valid event of the range and the last one ends at the last, and the
\* durations sum to the time from the first valid event to the last.
C26_PeriodsTileSpan ==
  (IsReport /\ StoreSorted) =>
    LET valid   == ValidInRange(ret.startDate, ret.endDate)
        periods == ret.data.periods
    IN  /\ \A i \in 1..(Len(periods) - 1) : periods[i].end = periods[i + 1].start
        /\ \A i \in 1..Len(periods) :
              /\ ~DateLT(NewDate(periods[i].end), NewDate(periods[i].start))
              /\ periods[i].durationHours >= 0
        /\ Len(periods) > 0 =>
              /\ periods[1].start = valid[1].timestamp
              /\ periods[Len(periods)].end = valid[Len(valid)].timestamp
              /\ SeqSum([i \in 1..Len(periods) |-> periods[i].durationHours])
                   = DiffMs(NewDate(valid[Len(valid)].timestamp),
                            NewDate(valid[1].timestamp))

\* C26 witness: a report with two periods of different positive lengths over
\* three valid events.
C26_Witness ==
  /\ IsReport /\ StoreSorted
  /\ Len(ret.data.periods) = 2
  /\ ret.data.periods[1].durationHours > 0
  /\ ret.data.periods[2].durationHours > ret.data.periods[1].durationHours

\* the field of the rows for the hours of a state
HoursField(state) ==
  CASE state = "inside"  -> "hoursInside"
    [] state = "outside" -> "hoursOutside"
    [] state = "unknown" -> "hoursUnknown"

\* C27  Conservation across the presence views: with the events in timestamp
\* order, for each of the states inside, outside and unknown, the hours of the
\* state summed over the 24 rows of hourlyPresence equal those summed over the
\* 12 rows of monthlyPresence, and both equal the summed durationHours of the
\* periods of that state.
C27_PresenceConservation ==
  (IsReport /\ StoreSorted) =>
    \A state \in {"inside", "outside", "unknown"} :
       /\ SumOf(ret.data.hourlyPresence, HoursField(state))
            = calculateTotalTimeByState(ret.data.periods)[state]
       /\ SumOf(ret.data.monthlyPresence, HoursField(state))
            = calculateTotalTimeByState(ret.data.periods)[state]
       /\ SumOf(ret.data.hourlyPresence, HoursField(state))
            = SumOf(ret.data.monthlyPresence, HoursField(state))

\* C27 witness: a report with time inside in December and in January, spread
\* over more than one hour of the day, and with a period that ends in the
\* middle of an hour slot.
C27_Witness ==
  /\ IsReport /\ StoreSorted
  /\ ret.data.monthlyPresence[12].hoursInside > 0
  /\ ret.data.monthlyPresence[1].hoursInside > 0
  /\ Cardinality({i \in 1..24 : ret.data.hourlyPresence[i].hoursInside > 0}) > 1
  /\ \E i \in 1..Len(ret.data.periods) :
        ret.data.periods[i].durationHours % MsPerHour # 0

(***************************************************************************)
(* Properties of the classification.                                       *)
(***************************************************************************)
\* largest number of lines of one kind in a recognised text
MaxLines == 5

\* the recognised texts, by their numbers of lines of each kind
Texts == [out : 0..MaxLines, inNoPrey : 0..MaxLines, inPrey : 0..MaxLines]

\* the result that the decision order gives for a text: "out" from four
\* "out" lines on, else "in" with prey from one prey line on, else "in"
\* without prey from four "no prey" lines on, else "invalid"
DecisionOrder(text, result) ==
  /\ text.out >= 4 =>
        result.direction = "out" /\ ~result.prey
  /\ (text.out < 4 /\ text.inPrey >= 1) =>
        result.direction = "in" /\ result.prey
  /\ (text.out < 4 /\ text.inPrey = 0 /\ text.inNoPrey >= 4) =>
        result.direction = "in" /\ ~result.prey
  /\ (text.out < 4 /\ text.inPrey = 0 /\ text.inNoPrey < 4) =>
        result.direction = "invalid" /\ result.confidence = 0 /\ ~result.prey

\* a prey flag that is set comes with the direction "in"
PreyIsIn(record) ==
  ("prey" \in DOMAIN record /\ record.prey) => record.direction = "in"

\* C28  Prey implies entry: analyzeText decides in the order out (outCount
\* >= 4), in with prey (inPreyCount >= 1), in without prey (inNoPreyCount
\* >= 4), else invalid with confidence 0 and prey false; and every
\* classification result and every event that the bot or the rescan has
\* written has direction "in" if its prey flag is true.
C28_PreyImpliesIn ==
  /\ \A text \in Texts :
        /\ DecisionOrder(text, analyzeText(text))
        /\ PreyIsIn(analyzeText(text))
  /\ \A photo \in Photos, config \in Configs : PreyIsIn(Classify(photo, config))
  /\ \A k \in 1..Len(store) : PreyIsIn(store[k])

\* C28 witness: the rescan has written an event with prey, which the bot had
\* recorded without, next to an event that the bot recorded.
C28_Witness ==
  /\ IsRescan
  /\ ret.saveEvents # <<>>
  /\ store = ret.saveEvents[Len(ret.saveEvents)]
  /\ Len(store) > 1
  /\ \E k \in 1..Len(store) :
        /\ store[k].direction = "in"
        /\ "prey" \in DOMAIN store[k] /\ store[k].prey
        /\ "prey" \in DOMAIN ret.loaded[k] /\ ~ret.loaded[k].prey

\* a run over the day 2025-01-01 with an event at the first and an event at
\* the last millisecond of its range, both with their image: both are counted
BoundsInclusive ==
  LET startDate == parseDate(<<2025, 1, 1>>)
      endDate   == setUTCHoursEndOfDay(parseDate(<<2025, 1, 1>>))
      first     == <<2025, 1, 1, 0>>
      last      == <<2025, 1, 1, MsPerDay - 1>>
      photo     == CHOOSE p \in Photos : Classify(p, "framed").direction = "out"
      events    == << PhotoEvent("framed", first, "k3x9pq1", photo),
                      PhotoEvent("framed", last, "k3x9pq1", photo) >>
      dir       == saveImage(saveImage(NoImages, photo, events[1].id), photo, events[2].id)
  IN  /\ NewDate(first) = startDate
      /\ NewDate(last) = endDate
      /\ RescanWalk(events, 1, dir, "shifted", startDate, endDate, 0, 0).rescanned = 2

\* C29  Rescan skips: a run of rescanImages leaves every field of an event
\* as it is, and does not count the event, if its timestamp lies outside
\* startDate..endDate (both bounds belong to the range), if it names no image
\* file, or if its image file does not exist; the returned count is the
\* number of events of the range whose image was read and classified.
C29_RescanSkips ==
  /\ []BoundsInclusive
  /\ [][ RescanReturns =>
           LET skipped == {k \in 1..Len(store) :
                             ~HasImage(store[k], images, ret'.startDate, ret'.endDate)}
               read    == {k \in 1..Len(store) :
                             Readable(store[k], images, ret'.startDate, ret'.endDate)}
           IN  /\ Len(store') = Len(store)
               /\ \A k \in skipped : store'[k] = store[k]
               /\ ret'.value = Cardinality(read)
               /\ ret'.value <= Len(store) - Cardinality(skipped) ]_vars

\* C29 witness: a run over the single day that skipped an event of the day
\* after, which has its image, and an event of the day whose image file is
\* gone, and returned 0.
C29_Witness ==
  /\ IsRescan
  /\ Len(ret.loaded) = 2
  /\ store = ret.loaded
  /\ ret.value = 0
  /\ DateLE(ret.startDate, NewDate(store[1].timestamp))
  /\ DateLE(NewDate(store[1].timestamp), ret.endDate)
  /\ "imageFile" \in DOMAIN store[1] /\ store[1].imageFile \notin DOMAIN images.files
  /\ DateLT(ret.endDate, NewDate(store[2].timestamp))
  /\ HasImage(store[2], images, NewDate(store[2].timestamp), NewDate(store[2].timestamp))

\* the "YYYY-MM" keys from first to last, in ascending order
MonthsFromTo(first, last) ==
  [i \in 1..((last[1] * 12 + last[2]) - (first[1] * 12 + first[2]) + 1) |->
     << (first[1] * 12 + first[2] + i - 2) \div 12,
        ((first[1] * 12 + first[2] + i - 2) % 12) + 1 >>]

\* the month column of a table
MonthColumn(rows) == [i \in 1..Len(rows) |-> rows[i].month]

\* the three month tables of a report over startDate..endDate have the
\* months from the local month of startDate to that of endDate as their keys,
\* in ascending order
MonthKeysAgree(startDate, endDate, data) ==
  LET months == MonthsFromTo(LocalMonth(startDate), LocalMonth(endDate))
  IN  /\ MonthColumn(data.monthlyTimeSeries) = months
      /\ MonthColumn(data.monthlyActivity) = months
      /\ MonthColumn(data.monthlyPreyCount) = months

\* the tables of a report over the one day 2024-12-31, whose last instant is
\* in January by the local clock: the keys are 2024-12 and 2025-01
MonthEndKeys ==
  LET startDate  == parseDate(<<2024, 12, 31>>)
      endDate    == setUTCHoursEndOfDay(parseDate(<<2024, 12, 31>>))
      dailyStats == calculateDailyStats(<<>>, <<>>, startDate, endDate)
      data       == [monthlyTimeSeries |-> calculateMonthlyTimeSeries(<<>>, dailyStats),
                     monthlyActivity   |-> calculateMonthlyActivity(<<>>, startDate, endDate),
                     monthlyPreyCount  |-> calculateMonthlyPreyCount(<<>>, startDate, endDate)]
  IN  /\ MonthKeysAgree(startDate, endDate, data)
      /\ MonthColumn(data.monthlyActivity) = << <<2024, 12>>, <<2025, 1>> >>

\* C30  Month-key agreement: for every range with startDate <= endDate and
\* every event list, monthlyTimeSeries, monthlyActivity and monthlyPreyCount
\* have the same YYYY-MM keys, every month from the local month of startDate
\* to the local month of endDate, each table in ascending order of month.
C30_MonthKeysAgree ==
  /\ MonthEndKeys
  /\ (IsReport /\ DateLE(ret.startDate, ret.endDate)) =>
        MonthKeysAgree(ret.startDate, ret.endDate, ret.data)

\* C30 witness: a report over a range from December to January, with events
\* in both months, whose three month tables have two rows each.
C30_Witness ==
  /\ IsReport /\ DateLE(ret.startDate, ret.endDate)
  /\ Len(ret.data.monthlyTimeSeries) = 2
  /\ Len(ret.data.monthlyActivity) = 2
  /\ Len(ret.data.monthlyPreyCount) = 2
  /\ \E i, j \in 1..Len(ret.data.events) :
        /\ EventMonth(ret.data.events[i]) = <<2024, 12>>
        /\ EventMonth(ret.data.events[j]) = <<2025, 1>>

====
